---------------------------- MODULE Spec2Model ----------------------------
(***************************************************************************)
(* A model of the control-group runtime of libcgroup (src/src/api.c): the  *)
(* mount table and its initialisation, the public entry points, the        *)
(* filesystem driver (create, delete, attach), the rule lists and their    *)
(* lock, and the handles the operations open.                              *)
(*                                                                         *)
(* Return codes are written as strings carrying the source's names; OK is  *)
(* the return value 0.                                                     *)
(***************************************************************************)
EXTENDS Integers, Sequences, FiniteSets, TLC

VARIABLES
    cgroup_initialized,  \* api.c:77, 0 or 1
    cg_mount_table,      \* api.c:73, the array of (name, path) slots
    n_init,              \* the number of cgroup_init calls made so far
    last_scan,           \* the matches of the last cgroup_init that succeeded
    cg_mount_table_lock, \* api.c:74, the lock of the mount table
    ini,                 \* the position of a thread inside cgroup_init
    rdr,                 \* each reading thread's position in its read section
    call,                \* the last completed call: its operation, inputs, result
    rules_file,          \* the lines of CGRULES_CONF_FILE on disk
    rule_mem,            \* the cgroup_rule structs allocated so far, by address
    rl,                  \* api.c:83, the cached rule list (head, tail)
    trl,                 \* api.c:86, the transient rule list (head, tail)
    rl_lock,             \* api.c:89, the thread holding the rule lock, or NoThread
    th,                  \* each thread's position in the call it is running
    n_calls,             \* the number of calls the threads have started
    fs,                  \* the cgroup hierarchies: per mount, the group directory
    cwd,                 \* the working directory of the process
    dr,                  \* the position of the thread running a driver call
    disk,                \* the cgroup hierarchies: directories, files, contents
    hnd,                 \* the iterator handle the caller holds
    n_ops                \* the number of driver calls started

tableVars == <<cgroup_initialized, cg_mount_table, n_init, last_scan,
               cg_mount_table_lock, ini, rdr>>
ruleVars == <<rules_file, rule_mem, rl, trl, rl_lock, th, n_calls>>

\* The files of the hierarchies and the caller's handle.
diskVars == <<disk, hnd>>

driverVars == <<fs, cwd, dr, n_ops, diskVars>>

vars == <<cgroup_initialized, cg_mount_table, n_init, last_scan,
          cg_mount_table_lock, ini, rdr, call, rules_file,
          rule_mem, rl, trl, rl_lock, th, n_calls, fs, cwd, dr, n_ops,
          disk, hnd>>

\* What an action on the mount table alone leaves unchanged.
notTable == <<ruleVars, driverVars>>

(***************************************************************************)
(* Bounds of the model.                                                    *)
(***************************************************************************)
\* Slots of cg_mount_table (the source's capacity, scaled down).
CG_CONTROLLER_MAX == 6
\* Longest list of registered controllers read from /proc/cgroups.
MaxRegistered == 2
\* Most calls of cgroup_init in one run.
MaxInits == 2
\* Longest mount list read from /proc/mounts.
MaxMounts == 2
\* Most controller options of one mount entry.
MaxOpts == 2

(***************************************************************************)
(* Return codes (the kinds of cgroup_strerror_codes, api.c:91-116).        *)
(***************************************************************************)
OK == "0"
ECGROUPNOTMOUNTED == "ECGROUPNOTMOUNTED"
ECGROUPNOTEXIST == "ECGROUPNOTEXIST"
ECGROUPSUBSYSNOTMOUNTED == "ECGROUPSUBSYSNOTMOUNTED"
ECGROUPNOTOWNER == "ECGROUPNOTOWNER"
ECGROUPNOTALLOWED == "ECGROUPNOTALLOWED"
ECGINVAL == "ECGINVAL"
ECGFAIL == "ECGFAIL"
ECGROUPNOTINITIALIZED == "ECGROUPNOTINITIALIZED"
ECGROUPVALUENOTEXIST == "ECGROUPVALUENOTEXIST"
ECGOTHER == "ECGOTHER"
ECGROUPPARSEFAIL == "ECGROUPPARSEFAIL"
ECGEOF == "ECGEOF"

(***************************************************************************)
(* Helpers on sequences.                                                   *)
(***************************************************************************)
\* The sequences over S of length lo..hi.
SeqsOf(S, lo, hi) == UNION {[1..n -> S] : n \in lo..hi}

\* The sequences over S of length lo..hi without a repeated element.
DistinctSeqs(S, lo, hi) ==
    {s \in SeqsOf(S, lo, hi) : \A i, j \in 1..Len(s) : i # j => s[i] # s[j]}

(***************************************************************************)
(* The environment of cgroup_init: /proc/cgroups and /proc/mounts.         *)
(***************************************************************************)
Controllers == {"cpu", "memory"}
MountDirs == {"/cg/a", "/cg/b"}

\* The controller names of /proc/cgroups, in file order.
RegisteredLists == DistinctSeqs(Controllers, 0, MaxRegistered)

\* The mount options of one cgroup mount entry, as its comma-separated tokens.
OptLists == DistinctSeqs(Controllers, 1, MaxOpts)

\* One entry of /proc/mounts (an entry of another type is skipped whole).
MountEntries ==
    [type : {"cgroup"}, dir : MountDirs, opts : OptLists]
        \cup {[type |-> "tmpfs", dir |-> "/tmp", opts |-> <<"cpu">>]}

MountLists == SeqsOf(MountEntries, 0, MaxMounts)

\* How the reads of cgroup_init end: all succeed, or the named step fails.
InitIo == {"ok", "cgroups_open", "buf_alloc", "header_read", "mounts_open",
           "ent_alloc"}

(***************************************************************************)
(* The mount table.                                                        *)
(***************************************************************************)
EmptySlot == [name |-> "", path |-> ""]

\* The zero-filled static array (api.c:73).
EmptyTable == [i \in 0..(CG_CONTROLLER_MAX - 1) |-> EmptySlot]

\* The index of the first slot with an empty name, CG_CONTROLLER_MAX when
\* there is none: where every reader's loop over the table stops
\* (api.c:184, 742, 826).
FirstEmpty(tab) ==
    IF \E i \in DOMAIN tab : tab[i].name = ""
    THEN CHOOSE i \in DOMAIN tab :
            tab[i].name = "" /\ \A j \in DOMAIN tab : j < i => tab[j].name # ""
    ELSE CG_CONTROLLER_MAX

\* The entries a reader sees, in slot order.
Visible(tab) == [k \in 1..FirstEmpty(tab) |-> tab[k - 1]]

\* api.c:178-193.
cgroup_test_subsys_mounted(tab, name) ==
    \E k \in 1..FirstEmpty(tab) : tab[k - 1].name = name

\* The result of a failed path resolution (the NULL pointer).
NullPath == [found |-> FALSE, mount |-> "", group |-> ""]

\* api.c:739-758: the path of group `name` under controller `type`, as the
\* mount path and the group name it is concatenated from, or NullPath.
cg_build_path_locked(tab, name, type) ==
    IF \E k \in 1..FirstEmpty(tab) : tab[k - 1].name = type
    THEN LET k == CHOOSE k \in 1..FirstEmpty(tab) :
                    /\ tab[k - 1].name = type
                    /\ \A j \in 1..(k - 1) : tab[j - 1].name # type
         IN  [found |-> TRUE, mount |-> tab[k - 1].path, group |-> name]
    ELSE NullPath

(***************************************************************************)
(* cgroup_init (api.c:562-688).                                            *)
(***************************************************************************)
\* hasmntopt(ent, c): c is one of the option tokens of the entry.
hasmntopt(opts, c) == \E k \in 1..Len(opts) : opts[k] = c

\* The options left in the entry's buffer after strtok_r(mntopt, ",", ..)
\* (api.c:646) has overwritten the comma that follows the matched token.
strtok_r_cut(opts, c) ==
    LET k == CHOOSE k \in 1..Len(opts) :
                opts[k] = c /\ \A j \in 1..(k - 1) : opts[j] # c
    IN  SubSeq(opts, 1, k)

\* The inner loop over controllers[] for one cgroup mount entry
\* (api.c:640-657). st = [tab, found_mnt, matches].
RECURSIVE ScanControllers(_, _, _, _, _)
ScanControllers(reg, i, opts, dir, st) ==
    IF i > Len(reg) THEN st
    ELSE IF ~hasmntopt(opts, reg[i])
         THEN ScanControllers(reg, i + 1, opts, dir, st)
         ELSE ScanControllers(reg, i + 1, strtok_r_cut(opts, reg[i]), dir,
                [tab |-> [st.tab EXCEPT ![st.found_mnt] =
                                [name |-> reg[i], path |-> dir]],
                 found_mnt |-> st.found_mnt + 1,
                 matches |-> Append(st.matches,
                                [name |-> reg[i], path |-> dir])])

\* The loop over the mount entries (api.c:634-658).
RECURSIVE ScanMounts(_, _, _, _)
ScanMounts(reg, mounts, m, st) ==
    IF m > Len(mounts) THEN st
    ELSE IF mounts[m].type # "cgroup"
         THEN ScanMounts(reg, mounts, m + 1, st)
         ELSE ScanMounts(reg, mounts, m + 1,
                ScanControllers(reg, 1, mounts[m].opts, mounts[m].dir, st))

\* The (controller, mount path) matches of a scan, in scan order.
ScanMatches(reg, mounts) ==
    ScanMounts(reg, mounts, 1,
        [tab |-> EmptyTable, found_mnt |-> 0, matches |-> <<>>]).matches

\* api.c:668-669: found_mnt is incremented once more before the empty
\* name is stored.
TerminatorIndex(found_mnt) == found_mnt + 1

\* An init that clears the flag when it fails.
InitClearsFlag(tab, inited, reg, mounts, io) ==
    IF io \in {"cgroups_open", "buf_alloc", "header_read", "ent_alloc"}
    THEN [ret |-> ECGOTHER, tab |-> tab, inited |-> 0,
          errno_set |-> TRUE, matches |-> <<>>]
    ELSE IF io = "mounts_open"
    THEN [ret |-> ECGFAIL, tab |-> tab, inited |-> 0,
          errno_set |-> FALSE, matches |-> <<>>]
    ELSE LET st == ScanMounts(reg, mounts, 1,
                    [tab |-> tab, found_mnt |-> 0, matches |-> <<>>])
         IN  IF st.found_mnt = 0
             THEN [ret |-> ECGROUPNOTMOUNTED,
                   tab |-> [st.tab EXCEPT ![0].name = ""],
                   inited |-> 0, errno_set |-> FALSE,
                   matches |-> st.matches]
             ELSE [ret |-> OK,
                   tab |-> [st.tab EXCEPT
                              ![TerminatorIndex(st.found_mnt)].name = ""],
                   inited |-> 1, errno_set |-> FALSE,
                   matches |-> st.matches]

\* The whole of cgroup_init on table `tab` with flag `inited`:
\* [ret, tab, inited, errno_set, matches].
cgroup_init(tab, inited, reg, mounts, io) ==
    IF io \in {"cgroups_open", "buf_alloc", "header_read", "ent_alloc"}
    THEN [ret |-> ECGOTHER, tab |-> tab, inited |-> inited,
          errno_set |-> TRUE, matches |-> <<>>]
    ELSE IF io = "mounts_open"
    THEN [ret |-> ECGFAIL, tab |-> tab, inited |-> inited,
          errno_set |-> FALSE, matches |-> <<>>]
    ELSE LET st == ScanMounts(reg, mounts, 1,
                    [tab |-> tab, found_mnt |-> 0, matches |-> <<>>])
         IN  IF st.found_mnt = 0
             THEN [ret |-> ECGROUPNOTMOUNTED,
                   tab |-> [st.tab EXCEPT ![0].name = ""],
                   inited |-> inited, errno_set |-> FALSE,
                   matches |-> st.matches]
             ELSE [ret |-> OK,
                   tab |-> [st.tab EXCEPT
                              ![TerminatorIndex(st.found_mnt)].name = ""],
                   inited |-> 1, errno_set |-> FALSE,
                   matches |-> st.matches]

\* A scan whose writes stay inside the table and inside controllers[]
\* (api.c:569); a longer one writes past the arrays.
FitsTable(reg, mounts) ==
    /\ Len(reg) < CG_CONTROLLER_MAX
    /\ Len(ScanMatches(reg, mounts)) + 1 < CG_CONTROLLER_MAX

(***************************************************************************)
(* The rules file, the password and group databases, and                   *)
(* cgroup_parse_rules (api.c:265-552).                                     *)
(***************************************************************************)
CGRULE_INVALID == -1
CGRULE_WILD == -2
\* libcg.h:26.
MAX_MNT_ELEMENTS == 8

\* getpwnam / getpwuid.
PasswdDb == {[name |-> "alice", uid |-> 1], [name |-> "bob", uid |-> 2]}
\* getgrnam: a group, its gid and its gr_mem.
GroupDb == {[name |-> "staff", gid |-> 10, mem |-> {"bob"}]}

HasPwnam(n) == \E e \in PasswdDb : e.name = n
getpwnam(n) == CHOOSE e \in PasswdDb : e.name = n
HasPwuid(u) == \E e \in PasswdDb : e.uid = u
getpwuid(u) == CHOOSE e \in PasswdDb : e.uid = u
HasGrnam(n) == \E e \in GroupDb : e.name = n
getgrnam(n) == CHOOSE e \in GroupDb : e.name = n

\* The first field of a rule line: its first character when that is one
\* of '@', '*', '%' (else ""), and the characters after it.
Tok(first, rest) == [first |-> first, rest |-> rest]

\* A line of the file as sscanf("%s%s%s") and strtok(.., ",") split it:
\* the count of fields (0: blank or comment only), the principal, the
\* controller tokens, the destination.
Line(user, ctrls, dest) ==
    [fields |-> 3, user |-> user, controllers |-> ctrls, destination |-> dest]
BlankLine ==
    [fields |-> 0, user |-> Tok("", ""), controllers |-> <<>>,
     destination |-> ""]
ShortLine ==
    [fields |-> 2, user |-> Tok("", "alice"), controllers |-> <<"cpu">>,
     destination |-> ""]

\* The state of the parse loop: the locals skipped, matched, uid, gid and
\* grp (the name of the group entry held, "" for NULL), the rules pushed,
\* and the return code once a line has ended the parse.
ParseStart ==
    [skipped |-> FALSE, matched |-> FALSE, uid |-> CGRULE_INVALID,
     gid |-> CGRULE_INVALID, grp |-> "", rules |-> <<>>, ret |-> OK,
     stop |-> FALSE]

\* A parse that takes every principal as resolved, keeping the ids of the
\* rule before.
ResolveAlways(ps, user) ==
    [ok |-> TRUE, uid |-> ps.uid, gid |-> ps.gid, grp |-> ps.grp]

\* api.c:407-438: the principal of a line. ok is FALSE when the rule is
\* skipped because the name does not resolve.
ResolvePrincipal(ps, user) ==
    CASE user.first = "@" ->
            IF HasGrnam(user.rest)
            THEN [ok |-> TRUE, uid |-> CGRULE_INVALID,
                  gid |-> getgrnam(user.rest).gid, grp |-> user.rest]
            ELSE [ok |-> FALSE, uid |-> ps.uid, gid |-> ps.gid, grp |-> ""]
      [] user.first = "*" ->
            [ok |-> TRUE, uid |-> CGRULE_WILD, gid |-> CGRULE_WILD,
             grp |-> ps.grp]
      [] user.first = "%" ->
            [ok |-> TRUE, uid |-> ps.uid, gid |-> ps.gid, grp |-> ps.grp]
      [] OTHER ->
            IF HasPwnam(user.rest)
            THEN [ok |-> TRUE, uid |-> getpwnam(user.rest).uid,
                  gid |-> CGRULE_INVALID, grp |-> ps.grp]
            ELSE [ok |-> FALSE, uid |-> ps.uid, gid |-> ps.gid,
                  grp |-> ps.grp]

\* One pass of the loop body (api.c:345-531) over line L.
ParseLine(ps, L, cache, muid, mgid) ==
    IF L.fields = 0 THEN ps
    ELSE IF ps.skipped /\ L.user.first = "%" THEN ps
    ELSE IF L.fields # 3
    THEN [ps EXCEPT !.skipped = FALSE, !.ret = ECGROUPPARSEFAIL,
                    !.stop = TRUE]
    ELSE IF ~cache /\ ps.matched /\ L.user.first # "%"
    THEN [ps EXCEPT !.skipped = FALSE, !.ret = "-1", !.stop = TRUE]
    ELSE
    LET r == ResolvePrincipal(ps, L.user)
    IN  IF ~r.ok THEN [ps EXCEPT !.skipped = TRUE, !.grp = r.grp]
        ELSE IF r.grp # "" /\ muid # CGRULE_INVALID /\ ~HasPwuid(muid)
        THEN \* api.c:449-451: pwd is NULL and is dereferenced.
             [ps EXCEPT !.skipped = FALSE, !.ret = "SIGSEGV", !.stop = TRUE]
        ELSE
        LET member == /\ r.grp # ""
                      /\ muid # CGRULE_INVALID
                      /\ getpwuid(muid).name \in getgrnam(r.grp).mem
            matched == \/ ps.matched
                       \/ member
                       \/ r.uid = muid
                       \/ r.gid = mgid
                       \/ r.uid = CGRULE_WILD
            seen == [ps EXCEPT !.skipped = FALSE, !.uid = r.uid,
                               !.gid = r.gid, !.grp = r.grp,
                               !.matched = matched]
        IN  IF ~cache /\ ~matched THEN seen
            ELSE IF Len(L.controllers) = 0
                    \/ Len(L.controllers) > MAX_MNT_ELEMENTS
            THEN [seen EXCEPT !.ret = ECGROUPPARSEFAIL, !.stop = TRUE]
            ELSE [seen EXCEPT
                    !.rules = Append(@,
                        [uid |-> r.uid, gid |-> r.gid, name |-> L.user,
                         destination |-> L.destination,
                         controllers |-> L.controllers]),
                    !.grp = ""]

RECURSIVE ParseLines(_, _, _, _, _, _)
ParseLines(ps, file, i, cache, muid, mgid) ==
    IF i > Len(file) \/ ps.stop THEN ps
    ELSE ParseLines(ParseLine(ps, file[i], cache, muid, mgid), file, i + 1,
                    cache, muid, mgid)

\* How the opening steps of a parse end (api.c:315-331).
ParseIo == {"ok", "fopen", "buff_alloc"}

\* cgroup_parse_rules: [ret, cleaned, rules]. cleaned: the old list was
\* reached and freed (api.c:340-341); rules: the rules pushed, in order.
cgroup_parse_rules(file, cache, muid, mgid, io) ==
    IF io # "ok"
    THEN [ret |-> ECGOTHER, cleaned |-> FALSE, rules |-> <<>>]
    ELSE LET ps == ParseLines(ParseStart, file, 1, cache, muid, mgid)
         IN  [ret |-> IF ps.stop THEN ps.ret
                      ELSE IF ps.matched /\ ~cache THEN "-1" ELSE OK,
              cleaned |-> TRUE, rules |-> ps.rules]

(***************************************************************************)
(* The rule lists in memory. A rule lives at an address 1, 2, ... of       *)
(* rule_mem; address 0 is NULL. A freed rule keeps its address so that a   *)
(* later read of it can be told.                                           *)
(***************************************************************************)
NULL == 0
EmptyList == [head |-> NULL, tail |-> NULL]

\* The addresses of the list starting at head h, in list order.
RECURSIVE ListFrom(_, _)
ListFrom(mem, h) ==
    IF h = NULL THEN <<>> ELSE <<h>> \o ListFrom(mem, mem[h].next)

\* cgroup_free_rule_list (api.c:224-244): every rule of the list is freed.
cgroup_free_rule_list(mem, lst) ==
    LET gone == {ListFrom(mem, lst.head)[k] :
                    k \in 1..Len(ListFrom(mem, lst.head))}
    IN  [a \in DOMAIN mem |->
            IF a \in gone THEN [mem[a] EXCEPT !.freed = TRUE] ELSE mem[a]]

\* The pushes of api.c:510-517 for the parsed rules: rule k is allocated
\* at address Len(mem) + k and linked behind rule k - 1.
PushRules(mem, rules) ==
    mem \o [k \in 1..Len(rules) |->
                [rule |-> rules[k],
                 next |-> IF k < Len(rules) THEN Len(mem) + k + 1 ELSE NULL,
                 freed |-> FALSE]]

PushedList(mem, rules) ==
    IF Len(rules) = 0 THEN EmptyList
    ELSE [head |-> Len(mem) + 1, tail |-> Len(mem) + Len(rules)]

(***************************************************************************)
(* Threads running the rule engine's entry points.                         *)
(***************************************************************************)
Threads == {"t1", "t2"}
NoThread == "none"
\* Most calls the threads make in one run.
MaxCalls == 3
\* Most rules allocated in one run.
MaxRuleMem == 6
CGFLAG_USECACHE == 1

NoRead == [rule |-> NULL, locked |-> FALSE, freed |-> FALSE]

IdleThread ==
    [pc |-> "idle", op |-> "none", uid |-> 0, gid |-> 0, flags |-> 0,
     tmp |-> NULL, ret |-> OK, rd |-> NoRead]

\* The (uid, gid) pairs callers classify.
Callers == {[uid |-> 1, gid |-> 1], [uid |-> 2, gid |-> 2]}

AliceLine == Line(Tok("", "alice"), <<"cpu">>, "/users/alice")
ContLine == Line(Tok("%", ""), <<"memory">>, "/users/alice_mem")
WildLine == Line(Tok("*", ""), <<"cpu">>, "/all")
StaffLine == Line(Tok("@", "staff"), <<"cpu">>, "/grp")

\* The contents the rules file takes.
RuleFiles == {<<AliceLine, ContLine>>, <<StaffLine, WildLine>>}

(***************************************************************************)
(* The cgroup filesystem, the working directory and the arguments of the   *)
(* driver calls (create, attach, delete).                                  *)
(***************************************************************************)
\* The task ids alive in the system.
Tids == {1, 2}

\* The group the calls name; its parent is the root group of its hierarchy.
GroupName == "g"

\* A hierarchy in which the group's directory does not exist. A task that
\* is not in the group is in the root group.
NoGroup == [exists |-> FALSE, tasks |-> {}]

\* The segments cg_mkdir_p walks for a mount path (api.c:905-913): "/"
\* first, then one name per directory.
Segs(mount) ==
    IF mount = "/cg/a" THEN <<"/", "cg", "a">> ELSE <<"/", "cg", "b">>

\* The working directory of the process at start.
Home == <<"/", "home">>

\* fprintf(.., "%d", n): the decimal digits of n.
RECURSIVE Digits(_)
Digits(n) == IF n < 10 THEN <<n>> ELSE Digits(n \div 10) \o <<n % 10>>

\* The number a buffer of decimal digits is read as by the kernel's
\* parser of a write to a tasks file.
RECURSIVE Value(_)
Value(ds) ==
    IF Len(ds) = 0 THEN 0
    ELSE 10 * Value(SubSeq(ds, 1, Len(ds) - 1)) + ds[Len(ds)]

\* A write of buffer buf to the tasks file of a group: the task the buffer
\* names moves into the group (to_group) or out of it into the root group;
\* a buffer naming no task alive moves nothing.
KernelMove(h, buf, to_group) ==
    IF Len(buf) = 0 \/ Value(buf) \notin Tids THEN h
    ELSE IF to_group THEN [h EXCEPT !.tasks = @ \cup {Value(buf)}]
    ELSE [h EXCEPT !.tasks = @ \ {Value(buf)}]

\* Most controllers of a cgroup argument, most values of a controller.
MaxCtrls == 2
MaxValues == 1

\* struct cgroup_controller: a name and the names of its values.
CtrlArgs(valueLists) ==
    {[name |-> c, values |-> v] : c \in Controllers, v \in valueLists}

\* struct cgroup (or a NULL pointer): the controllers in index order.
CgroupArgs(valueLists) ==
    {[null |-> FALSE, controller |-> cs] :
        cs \in {q \in SeqsOf(CtrlArgs(valueLists), 0, MaxCtrls) :
                    \A a, b \in 1..Len(q) : a # b => q[a].name # q[b].name}}

NullCgroup == [null |-> TRUE, controller |-> <<>>]

\* The value lists a created group carries.
CreateValues == {<<>>, [k \in 1..MaxValues |-> k]}

\* The driver thread between calls.
IdleDriver ==
    [pc |-> "idle", op |-> "none", cg |-> NullCgroup, flag |-> FALSE,
     tid |-> 0, i |-> 0, j |-> 0, error |-> OK, retval |-> OK, ret |-> OK,
     path |-> NullPath, seg |-> 0, cwd0 |-> <<>>, restore_failed |-> FALSE,
     fatal |-> FALSE, todo |-> 0, writes |-> 0, first_fail |-> OK,
     wrote |-> {}, open |-> 0, misclose |-> FALSE, buf |-> <<>>,
     pre |-> [d \in MountDirs |-> {}], open_failed |-> 0, migrated |-> {},
     rm1 |-> {}, rm2 |-> {}, fail1 |-> FALSE, hard2 |-> FALSE,
     handed |-> FALSE, added |-> 0]

\* The positions at which the driver thread holds the reader side of
\* cg_mount_table_lock from one step to the next (api.c:1603-1697).
TableReaders == {"get_entry", "get_file"}

(***************************************************************************)
(* The files of the hierarchies: the directories of the groups, their      *)
(* owners and modes, and the contents of the files in them.                *)
(***************************************************************************)
\* The root group of a hierarchy, and the groups below it the calls name.
RootGroup == "."
DiskGroups == {"p", "p/g"}
AllGroups == {RootGroup} \cup DiskGroups

\* dirname(name) of a relative group name (api.c:1323-1327).
dirname(name) == IF name = "p/g" THEN "p" ELSE RootGroup

\* The groups whose directories are at or below that of `name`.
Beneath(name) ==
    IF name = RootGroup THEN AllGroups
    ELSE IF name = "p" THEN {"p", "p/g"}
    ELSE {name}

\* A file name as the tokens strtok_r(d_name, ".", ..) cuts it in
\* (api.c:1545-1556): "cpu.shares" is <<"cpu", "shares">>.
TasksFile == <<"tasks">>
NotifyFile == <<"notify_on_release">>
AttrFile(c) == IF c = "cpu" THEN <<"cpu", "shares">>
               ELSE <<c, "limit_in_bytes">>
\* A name no file of a group directory has.
BogusFile(c) == <<c, "bogus">>

\* Every file name of the model, in the order readdir returns them.
ReaddirOrder ==
    <<TasksFile, NotifyFile, AttrFile("cpu"), AttrFile("memory")>>
AllFiles == {ReaddirOrder[k] : k \in 1..Len(ReaddirOrder)}

\* The user ids: 0, the user the process runs as, and another user.
Uids == {0, 7}

\* A file that is not there, and the file the kernel makes in a new group
\* directory. The content is the sequence of whitespace-separated tokens.
NoFile == [present |-> FALSE, owner |-> 0, mode |-> "", content |-> <<>>]
KernelFile(f) ==
    [present |-> TRUE, owner |-> 0, mode |-> "0644",
     content |-> IF f = TasksFile THEN <<>>
                 ELSE IF f = NotifyFile THEN <<"0">> ELSE <<"1024">>]

\* A directory that is not there, and the directory mkdir makes in a
\* hierarchy of controllers cs (mode 0775 under umask 022): the kernel
\* fills it with tasks, notify_on_release and the files of cs.
NoDir == [exists |-> FALSE, owner |-> 0, mode |-> "",
          files |-> [f \in AllFiles |-> NoFile]]
KernelDir(cs) ==
    [exists |-> TRUE, owner |-> 0, mode |-> "0755",
     files |-> [f \in AllFiles |->
                 IF f \in {TasksFile, NotifyFile}
                       \cup {AttrFile(c) : c \in cs}
                 THEN KernelFile(f) ELSE NoFile]]

\* A mount point: the controllers of the hierarchy mounted on it (none:
\* nothing is mounted) and the directories of the groups in it.
Unmounted == [ctrls |-> {}, dirs |-> [g \in AllGroups |-> NoDir]]
Mounted(cs) ==
    [ctrls |-> cs,
     dirs |-> [g \in AllGroups |->
                IF g = RootGroup THEN KernelDir(cs) ELSE NoDir]]

NoDisk == [m \in MountDirs |-> Unmounted]

\* The hierarchies the system may have mounted when the program starts.
Layouts ==
    {[m \in MountDirs |-> IF m = "/cg/a" THEN Mounted({"cpu"})
                          ELSE Mounted({"memory"})],
     [m \in MountDirs |-> IF m = "/cg/a" THEN Mounted({"cpu", "memory"})
                          ELSE Unmounted]}

\* No iterator is open.
NoHandle == [kind |-> "none"]

(***************************************************************************)
(* The state after program start.                                          *)
(***************************************************************************)
NoCall == [op |-> "none"]

\* PTHREAD_RWLOCK_INITIALIZER (api.c:74): no writer, no reader.
FreeLock == [writer |-> FALSE, readers |-> 0]

\* No thread is inside cgroup_init: its locals (api.c:564-578), how its
\* reads end, the files it reads, the matches of its scan, and whether it
\* has written some but not all of the table.
IdleInit ==
    [pc |-> "idle", io |-> "ok", scan |-> [reg |-> <<>>, mounts |-> <<>>],
     matches |-> <<>>, found_mnt |-> 0, ret |-> OK, errno_set |-> FALSE,
     partial |-> FALSE]

\* The threads that run operations reading the mount table.
Readers == {"r1", "r2"}

\* A thread outside every read section: the operation it runs, the
\* controller it looks up, its loop index, whether it called while
\* cgroup_init was running, and whether an entry it read was of a table
\* written in part.
IdleReader ==
    [pc |-> "idle", op |-> "none", type |-> "", i |-> 0, raced |-> FALSE,
     torn |-> FALSE]

Init ==
    /\ cgroup_initialized = 0
    /\ cg_mount_table = EmptyTable
    /\ n_init = 0
    /\ last_scan = <<>>
    /\ cg_mount_table_lock = FreeLock
    /\ ini = IdleInit
    /\ rdr = [r \in Readers |-> IdleReader]
    /\ call = NoCall
    /\ rules_file = <<AliceLine, ContLine>>
    /\ rule_mem = <<>>
    /\ rl = EmptyList
    /\ trl = EmptyList
    /\ rl_lock = NoThread
    /\ th = [t \in Threads |-> IdleThread]
    /\ n_calls = 0
    /\ fs = [d \in MountDirs |-> NoGroup]
    /\ cwd = Home
    /\ dr = IdleDriver
    /\ n_ops = 0
    /\ disk = NoDisk
    /\ hnd = NoHandle

(***************************************************************************)
(* Actions on the mount table.                                             *)
(***************************************************************************)
\* The contents of /proc/cgroups and /proc/mounts a call of cgroup_init
\* may find.
Scans ==
    {sc \in [reg : RegisteredLists, mounts : MountLists] :
        FitsTable(sc.reg, sc.mounts)}

NoScan == [reg |-> <<>>, mounts |-> <<>>]

CgroupInitFrom(scans, ios) ==
    /\ dr.pc \notin TableReaders
    /\ n_init < MaxInits
    /\ cg_mount_table_lock = FreeLock
    /\ n_init' = n_init + 1
    /\ UNCHANGED <<notTable, cg_mount_table_lock, ini, rdr>>
    /\ \E io \in ios :
       \E sc \in (IF io = "ok" THEN scans ELSE {NoScan}) :
           LET r == cgroup_init(cg_mount_table, cgroup_initialized,
                                sc.reg, sc.mounts, io)
           IN  /\ cg_mount_table' = r.tab
               /\ cgroup_initialized' = r.inited
               /\ last_scan' = IF r.ret = OK THEN r.matches ELSE last_scan
               /\ call' = [op |-> "cgroup_init", ret |-> r.ret,
                           matches |-> r.matches, errno_set |-> r.errno_set,
                           io |-> io, scan |-> sc]

CgroupInit == CgroupInitFrom(Scans, InitIo)

TestSubsysMounted ==
    \E c \in Controllers :
        /\ call' = [op |-> "cgroup_test_subsys_mounted", name |-> c,
                    ret |-> cgroup_test_subsys_mounted(cg_mount_table, c)]
        /\ UNCHANGED <<tableVars, notTable>>

NextInit == CgroupInit \/ TestSubsysMounted

SpecInit == Init /\ [][NextInit]_vars

(***************************************************************************)
(* C3: after a successful init the entries a reader sees are exactly the   *)
(* matches of that scan, in scan order; a re-initialisation that matches   *)
(* fewer controllers leaves no entry of the earlier scan visible.          *)
(***************************************************************************)
C3_VisibleIsLastScan ==
    (call.op = "cgroup_init" /\ call.ret = OK)
        => Visible(cg_mount_table) = call.matches

(***************************************************************************)
(* The public entry points and what each does before it tests              *)
(* cgroup_initialized. A head is [ret, steps]: steps are the argument      *)
(* checks, handle dereferences, lock acquisitions and filesystem accesses  *)
(* made, in order, up to the test of the flag (or, in a function that      *)
(* never tests it, up to its first return); ret is the value returned      *)
(* there, or CONTINUE when the function goes on into its body.             *)
(***************************************************************************)
CONTINUE == "CONTINUE"

\* The heads that test the flag in their first statement: api.c:819
\* (attach), 1037 (modify), 1172 (create), 1349 (create_from_parent),
\* 1393 (delete), 1593 (read), 1876 (change_cgroup with flags), 1970
\* (change_cgroup_path), 2290, 2353, 2369, 2391, 2415, 2431, 2456
\* (walk_tree_begin and the stats and task iterators).
CheckFirstHead(inited) ==
    IF inited = 0
    THEN [ret |-> ECGROUPNOTINITIALIZED, steps |-> <<>>]
    ELSE [ret |-> CONTINUE, steps |-> <<>>]

\* api.c:866-874: the thread id is read, then attach is called.
cgroup_attach_task_head(inited) == CheckFirstHead(inited)

\* api.c:1953-1956: calls the flags variant with flags = 0.
cgroup_change_cgroup_uid_gid_head(inited) == CheckFirstHead(inited)

\* api.c:1282-1296: no test of the flag; the reader lock is taken and the
\* first slot of the table is read at once.
cgroup_find_parent_head(tab, inited) ==
    IF ~cg_build_path_locked(tab, "g", tab[0].name).found
    THEN [ret |-> "NULL", steps |-> <<"lock", "table_read", "unlock">>]
    ELSE [ret |-> CONTINUE,
          steps |-> <<"lock", "table_read", "unlock", "stat">>]

\* api.c:2096-2109: the controller argument is tested before the flag.
cgroup_get_current_controller_path_head(inited, null_arg) ==
    IF null_arg
    THEN [ret |-> ECGOTHER, steps |-> <<"arg_check">>]
    ELSE IF inited = 0
         THEN [ret |-> ECGROUPNOTINITIALIZED, steps |-> <<"arg_check">>]
         ELSE [ret |-> CONTINUE, steps |-> <<"arg_check">>]

\* api.c:265-323 as called from api.c:2052 and 2077: no test of the flag;
\* the rule lock is taken and the rules file opened. `parse` is what the
\* parse ends with.
cgroup_parse_rules_head(parse) ==
    [ret |-> parse, steps |-> <<"lock", "fopen">>]

\* api.c:2046-2065: any parse failure is returned as parse-failed.
cgroup_reload_cached_rules_head(parse) ==
    [ret |-> IF parse # OK THEN ECGROUPPARSEFAIL ELSE OK,
     steps |-> cgroup_parse_rules_head(parse).steps]

\* api.c:2071-2087.
cgroup_init_rules_cache_head(parse) == cgroup_parse_rules_head(parse)

\* api.c:2241-2252 and 2263-2271: *handle is read in the declarations,
\* before the flag is tested. With a NULL handle that read is undefined:
\* `trap` says whether the build faults on it or has dropped the unused
\* load.
WalkDerefHead(inited, null_arg, trap) ==
    IF null_arg /\ trap
    THEN [ret |-> "SIGSEGV", steps |-> <<"handle_deref">>]
    ELSE IF inited = 0
         THEN [ret |-> ECGROUPNOTINITIALIZED, steps |-> <<"handle_deref">>]
         ELSE IF null_arg
              THEN [ret |-> ECGINVAL, steps |-> <<"handle_deref">>]
              ELSE [ret |-> CONTINUE, steps |-> <<"handle_deref">>]

CheckFirstEntries ==
    {"cgroup_attach_task_pid", "cgroup_modify_cgroup", "cgroup_create_cgroup",
     "cgroup_create_cgroup_from_parent", "cgroup_delete_cgroup",
     "cgroup_get_cgroup", "cgroup_change_cgroup_uid_gid_flags",
     "cgroup_change_cgroup_path", "cgroup_walk_tree_begin",
     "cgroup_read_stats_begin", "cgroup_read_stats_next",
     "cgroup_read_stats_end", "cgroup_get_task_begin",
     "cgroup_get_task_next", "cgroup_get_task_end"}

EntryPoints ==
    CheckFirstEntries \cup
    {"cgroup_attach_task", "cgroup_change_cgroup_uid_gid",
     "cgroup_find_parent", "cgroup_get_current_controller_path",
     "cgroup_reload_cached_rules", "cgroup_init_rules_cache",
     "cgroup_walk_tree_next", "cgroup_walk_tree_end"}

\* How a parse of the rules file can end (api.c:321, 329, 535, 542).
ParseResults == {OK, ECGOTHER, ECGROUPPARSEFAIL}

\* The head of entry point ep. null_arg: the pointer argument tested or
\* dereferenced in the head (the controller, the handle) is NULL.
EntryHead(ep, tab, inited, null_arg, parse, trap) ==
    CASE ep \in CheckFirstEntries -> CheckFirstHead(inited)
      [] ep = "cgroup_attach_task" -> cgroup_attach_task_head(inited)
      [] ep = "cgroup_change_cgroup_uid_gid" ->
            cgroup_change_cgroup_uid_gid_head(inited)
      [] ep = "cgroup_find_parent" -> cgroup_find_parent_head(tab, inited)
      [] ep = "cgroup_get_current_controller_path" ->
            cgroup_get_current_controller_path_head(inited, null_arg)
      [] ep = "cgroup_reload_cached_rules" ->
            cgroup_reload_cached_rules_head(parse)
      [] ep = "cgroup_init_rules_cache" -> cgroup_init_rules_cache_head(parse)
      [] ep \in {"cgroup_walk_tree_next", "cgroup_walk_tree_end"} ->
            WalkDerefHead(inited, null_arg, trap)

\* The entry points whose head reads a pointer argument.
PointerHeads ==
    {"cgroup_get_current_controller_path", "cgroup_walk_tree_next",
     "cgroup_walk_tree_end"}

EntryCall ==
    \E ep \in EntryPoints :
    \E null_arg \in (IF ep \in PointerHeads THEN BOOLEAN ELSE {FALSE}),
       parse \in (IF ep \in {"cgroup_reload_cached_rules",
                             "cgroup_init_rules_cache"}
                  THEN ParseResults ELSE {OK}),
       trap \in (IF ep \in {"cgroup_walk_tree_next", "cgroup_walk_tree_end"}
                 THEN BOOLEAN ELSE {FALSE}) :
        LET h == EntryHead(ep, cg_mount_table, cgroup_initialized, null_arg,
                           parse, trap)
        IN  /\ call' = [op |-> ep, inited |-> cgroup_initialized,
                        null_arg |-> null_arg, ret |-> h.ret,
                        steps |-> h.steps]
            /\ UNCHANGED <<tableVars, notTable>>

NextEntry == CgroupInit \/ EntryCall

SpecEntry == Init /\ [][NextEntry]_vars

(***************************************************************************)
(* C1: while the initialized flag is clear, every public entry point       *)
(* returns not-initialized, and does so before any argument check, handle  *)
(* dereference, lock acquisition or filesystem access.                     *)
(***************************************************************************)
C1_NotInitializedFirst ==
    (call.op \in EntryPoints /\ call.inited = 0)
        => (call.ret = ECGROUPNOTINITIALIZED /\ call.steps = <<>>)

(***************************************************************************)
(* The rule engine's entry points, step by step (api.c:1780-1940,          *)
(* 2046-2065). A step is one lock operation, one read of a list head or    *)
(* of a rule, or the parse made under the lock.                            *)
(***************************************************************************)
\* Mount lists for the runs that exercise the driver and the rule engine.
DriverScans ==
    {[reg |-> <<"cpu", "memory">>,
      mounts |-> <<[type |-> "cgroup", dir |-> "/cg/a", opts |-> <<"cpu">>],
                   [type |-> "cgroup", dir |-> "/cg/b",
                    opts |-> <<"memory">>]>>],
     [reg |-> <<"cpu", "memory">>, mounts |-> <<>>]}

CgroupInitDriver == CgroupInitFrom(DriverScans, {"ok"})

\* Another process rewrites the rules file.
EditRulesFile ==
    /\ \E f \in RuleFiles : rules_file # f /\ rules_file' = f
    /\ UNCHANGED <<driverVars, tableVars, call, rule_mem, rl, trl, rl_lock, th, n_calls>>

\* What a thread finds when it reads the rule at address a: a live rule,
\* or a freed one (with lock: whether it holds the rule lock).
ReadOf(t, a) == [rule |-> a, locked |-> rl_lock = t, freed |-> rule_mem[a].freed]

\* api.c:1866-1916: the call starts; the flag is tested, then the cached
\* list is searched or the file parsed.
StartChange(t) ==
    /\ th[t].pc = "idle" /\ n_calls < MaxCalls
    /\ n_calls' = n_calls + 1
    /\ \E c \in Callers, flags \in {0, CGFLAG_USECACHE} :
        th' = [th EXCEPT ![t] =
                [@ EXCEPT !.op = "cgroup_change_cgroup_uid_gid_flags",
                          !.uid = c.uid, !.gid = c.gid, !.flags = flags,
                          !.tmp = NULL, !.rd = NoRead,
                          !.ret = IF cgroup_initialized = 0
                                  THEN ECGROUPNOTINITIALIZED ELSE OK,
                          !.pc = IF cgroup_initialized = 0 THEN "done"
                                 ELSE IF flags = 0 THEN "parse_lock"
                                 ELSE "find_head"]]
    /\ UNCHANGED <<driverVars, tableVars, call, rules_file, rule_mem, rl, trl, rl_lock>>

\* api.c:2046-2052.
StartReload(t) ==
    /\ th[t].pc = "idle" /\ n_calls < MaxCalls
    /\ n_calls' = n_calls + 1
    /\ th' = [th EXCEPT ![t] =
                [@ EXCEPT !.op = "cgroup_reload_cached_rules",
                          !.uid = CGRULE_INVALID, !.gid = CGRULE_INVALID,
                          !.flags = 0, !.tmp = NULL, !.rd = NoRead,
                          !.ret = OK, !.pc = "parse_lock"]]
    /\ UNCHANGED <<driverVars, tableVars, call, rules_file, rule_mem, rl, trl, rl_lock>>

\* api.c:314: pthread_rwlock_wrlock(&rl_lock).
ParseLock(t) ==
    /\ th[t].pc = "parse_lock"
    /\ rl_lock = NoThread
    /\ rl_lock' = t
    /\ th' = [th EXCEPT ![t].pc = "parse_body"]
    /\ UNCHANGED <<driverVars, tableVars, call, rules_file, rule_mem, rl, trl, n_calls>>

\* api.c:315-548: the parse under the lock. The old list is freed and the
\* parsed rules pushed.
ParseBody(t) ==
    /\ th[t].pc = "parse_body"
    /\ \E io \in ParseIo :
        LET cache == th[t].op = "cgroup_reload_cached_rules"
            r == cgroup_parse_rules(rules_file, cache, th[t].uid, th[t].gid,
                                    io)
            lst == IF cache THEN rl ELSE trl
            mem1 == IF r.cleaned THEN cgroup_free_rule_list(rule_mem, lst)
                    ELSE rule_mem
            new == IF r.cleaned THEN PushedList(mem1, r.rules) ELSE lst
        IN  /\ Len(rule_mem) + Len(r.rules) <= MaxRuleMem
            /\ rule_mem' = PushRules(mem1, r.rules)
            /\ rl' = IF cache THEN new ELSE rl
            /\ trl' = IF cache THEN trl ELSE new
            /\ th' = [th EXCEPT ![t].ret = r.ret,
                                ![t].pc = IF r.ret = "SIGSEGV" THEN "crashed"
                                          ELSE "parse_unlock"]
    /\ UNCHANGED <<driverVars, tableVars, call, rules_file, rl_lock, n_calls>>

\* api.c:550 and what the caller does with the result (2052-2056,
\* 1892-1906).
ParseUnlock(t) ==
    /\ th[t].pc = "parse_unlock"
    /\ rl_lock' = NoThread
    /\ th' = [th EXCEPT ![t] =
                IF @.op = "cgroup_reload_cached_rules"
                THEN [@ EXCEPT !.ret = IF @ # OK THEN ECGROUPPARSEFAIL ELSE OK,
                               !.pc = "done"]
                ELSE IF @.ret = "-1" THEN [@ EXCEPT !.pc = "trl_head"]
                ELSE [@ EXCEPT !.pc = "done"]]
    /\ UNCHANGED <<driverVars, tableVars, call, rules_file, rule_mem, rl, trl, n_calls>>

\* api.c:1906: tmp = trl.head, after the lock was released.
TrlHead(t) ==
    /\ th[t].pc = "trl_head"
    /\ th' = [th EXCEPT ![t].tmp = trl.head,
                        ![t].pc = IF trl.head = NULL THEN "crashed"
                                  ELSE "exec"]
    /\ UNCHANGED <<driverVars, tableVars, call, rules_file, rule_mem, rl, trl, rl_lock, n_calls>>

\* api.c:1784: ret = rl.head, in the declarations, before the lock.
FindHead(t) ==
    /\ th[t].pc = "find_head"
    /\ th' = [th EXCEPT ![t].tmp = rl.head, ![t].pc = "find_lock"]
    /\ UNCHANGED <<driverVars, tableVars, call, rules_file, rule_mem, rl, trl, rl_lock, n_calls>>

\* api.c:1798.
FindLock(t) ==
    /\ th[t].pc = "find_lock"
    /\ rl_lock = NoThread
    /\ rl_lock' = t
    /\ th' = [th EXCEPT ![t].pc = "find_loop"]
    /\ UNCHANGED <<driverVars, tableVars, call, rules_file, rule_mem, rl, trl, n_calls>>

\* A search that takes a continuation rule for a match of its own.
RuleMatchesContinuation(r, uid, gid) ==
    IF r.name.first \in {"*", "%"} THEN "yes"
    ELSE IF r.uid = uid \/ r.gid = gid THEN "yes"
    ELSE "no"

\* api.c:1801-1835: whether rule r matches (uid, gid): "yes", "no", or
\* "spin" when the loop continues without advancing (api.c:1820-1828).
RuleMatches(r, uid, gid) ==
    IF r.uid = CGRULE_WILD /\ r.gid = CGRULE_WILD THEN "yes"
    ELSE IF r.uid = uid THEN "yes"
    ELSE IF r.gid = gid THEN "yes"
    ELSE IF r.name.first = "@"
    THEN IF ~HasGrnam(r.name.rest) THEN "spin"
         ELSE IF ~HasPwuid(uid) THEN "spin"
         ELSE IF getpwuid(uid).name \in getgrnam(r.name.rest).mem
              THEN "yes" ELSE "no"
    ELSE "no"

\* A read of a freed rule is undefined: the thread goes on with the bytes
\* still at the address, or faults.
AfterRead(t, a, pc) ==
    IF rule_mem[a].freed THEN {pc, "crashed"} ELSE {pc}

\* api.c:1799-1839: one pass of the search loop, under the lock.
FindLoop(t) ==
    /\ th[t].pc = "find_loop"
    /\ LET a == th[t].tmp IN
       IF a = NULL
       THEN th' = [th EXCEPT ![t].pc = "find_unlock"]
       ELSE LET m == RuleMatches(rule_mem[a].rule, th[t].uid, th[t].gid)
                pc == CASE m = "yes" -> "find_unlock"
                        [] m = "spin" -> "find_spin"
                        [] OTHER -> "find_loop"
            IN  \E q \in AfterRead(t, a, pc) :
                    th' = [th EXCEPT ![t].rd = ReadOf(t, a),
                                     ![t].tmp = IF q = "find_loop"
                                                THEN rule_mem[a].next ELSE a,
                                     ![t].pc = q]
    /\ UNCHANGED <<driverVars, tableVars, call, rules_file, rule_mem, rl, trl, rl_lock, n_calls>>

\* api.c:1842-1846 and 1910-1915.
FindUnlock(t) ==
    /\ th[t].pc = "find_unlock"
    /\ rl_lock' = NoThread
    /\ th' = [th EXCEPT ![t].pc = IF th[t].tmp = NULL THEN "done" ELSE "exec",
                        ![t].ret = OK]
    /\ UNCHANGED <<driverVars, tableVars, call, rules_file, rule_mem, rl, trl, n_calls>>

\* How the attach of one rule ends (api.c:1923-1928).
AttachResults == {OK, ECGROUPNOTEXIST}

\* api.c:1921-1929: tmp->destination and tmp->controllers are read and the
\* task attached; a failure ends the call.
Exec(t) ==
    /\ th[t].pc = "exec"
    /\ \E a \in AttachResults :
       \E q \in AfterRead(t, th[t].tmp, IF a = OK THEN "exec_next" ELSE "done") :
            th' = [th EXCEPT ![t].rd = ReadOf(t, th[t].tmp),
                             ![t].ret = a, ![t].pc = q]
    /\ UNCHANGED <<driverVars, tableVars, call, rules_file, rule_mem, rl, trl, rl_lock, n_calls>>

\* api.c:1935: tmp = tmp->next.
ExecNext(t) ==
    /\ th[t].pc = "exec_next"
    /\ LET a == th[t].tmp
           n == rule_mem[a].next
       IN  \E q \in AfterRead(t, a, IF n = NULL THEN "done" ELSE "exec_peek") :
            th' = [th EXCEPT ![t].rd = ReadOf(t, a),
                             ![t].tmp = IF q = "crashed" THEN a ELSE n,
                             ![t].pc = q]
    /\ UNCHANGED <<driverVars, tableVars, call, rules_file, rule_mem, rl, trl, rl_lock, n_calls>>

\* api.c:1936: tmp->name[0] == '%'.
ExecPeek(t) ==
    /\ th[t].pc = "exec_peek"
    /\ LET a == th[t].tmp
       IN  \E q \in AfterRead(t, a, IF rule_mem[a].rule.name.first = "%"
                                    THEN "exec" ELSE "done") :
            th' = [th EXCEPT ![t].rd = ReadOf(t, a), ![t].pc = q]
    /\ UNCHANGED <<driverVars, tableVars, call, rules_file, rule_mem, rl, trl, rl_lock, n_calls>>

\* The call returns to its caller.
Return(t) ==
    /\ th[t].pc = "done"
    /\ call' = [op |-> th[t].op, thread |-> t, ret |-> th[t].ret]
    /\ th' = [th EXCEPT ![t] = IdleThread]
    /\ UNCHANGED <<driverVars, tableVars, rules_file, rule_mem, rl, trl, rl_lock, n_calls>>

RuleStep(t) ==
    \/ StartChange(t) \/ StartReload(t)
    \/ ParseLock(t) \/ ParseBody(t) \/ ParseUnlock(t) \/ TrlHead(t)
    \/ FindHead(t) \/ FindLock(t) \/ FindLoop(t) \/ FindUnlock(t)
    \/ Exec(t) \/ ExecNext(t) \/ ExecPeek(t) \/ Return(t)

NextRules == CgroupInitDriver \/ \E t \in Threads : RuleStep(t)

SpecRules == Init /\ [][NextRules]_vars

(***************************************************************************)
(* C2: every read of a rule of the cached or the transient list is made    *)
(* with the rule lock held, so that a change_cgroup call running beside a  *)
(* reload or another change_cgroup never reads a rule already freed.       *)
(***************************************************************************)
C2_NoFreedRuleRead == \A t \in Threads : ~th[t].rd.freed

(***************************************************************************)
(* The driver calls, step by step. A step is one access to the mount       *)
(* table under its lock, or one group of filesystem calls made between     *)
(* two such accesses; cgroup_init of another thread runs between steps.    *)
(***************************************************************************)
notDriver == <<tableVars, call, ruleVars, diskVars>>

\* Most driver calls in one run.
MaxOps == 2

StartOp(op, cg, flag, tid) ==
    [IdleDriver EXCEPT !.op = op, !.cg = cg, !.flag = flag, !.tid = tid]

\* The call returns ret.
Finish(d, ret) == [d EXCEPT !.pc = "done", !.ret = ret]

\* Where a call goes on after its loop of mounted-checks.
AfterCheck(op) ==
    CASE op = "cgroup_create_cgroup" -> "cr_alloc"
      [] op = "cgroup_attach_task_pid" -> "at_build"
      [] op = "cgroup_delete_cgroup" -> "de_build"
      [] op = "cgroup_modify_cgroup" -> "mo_build"

\* The head shared by create, attach and delete (api.c:1172-1176,
\* 819-823, 1393-1397): the flag, then the cgroup pointer; on_null is
\* where the call goes with a NULL cgroup.
Enter(d, on_null) ==
    IF cgroup_initialized = 0 THEN Finish(d, ECGROUPNOTINITIALIZED)
    ELSE IF d.cg.null THEN on_null
    ELSE IF Len(d.cg.controller) = 0
         THEN [d EXCEPT !.pc = AfterCheck(d.op), !.i = 1]
         ELSE [d EXCEPT !.pc = "check", !.i = 1]

\* A loop of mounted-checks that looks at the first controller only.
CheckFirstOnly ==
    /\ dr.pc = "check"
    /\ dr' = IF ~cgroup_test_subsys_mounted(cg_mount_table,
                                            dr.cg.controller[dr.i].name)
             THEN Finish(dr, ECGROUPSUBSYSNOTMOUNTED)
             ELSE [dr EXCEPT !.pc = AfterCheck(dr.op), !.i = 1]
    /\ UNCHANGED <<notDriver, fs, cwd, n_ops>>

\* One pass of the loop of api.c:1178-1181 (840-846, 1399-1402): one call
\* of cgroup_test_subsys_mounted, which takes the reader lock for itself.
CheckMounted ==
    /\ dr.pc = "check"
    /\ dr' = IF ~cgroup_test_subsys_mounted(cg_mount_table,
                                            dr.cg.controller[dr.i].name)
             THEN Finish(dr, ECGROUPSUBSYSNOTMOUNTED)
             ELSE IF dr.i = Len(dr.cg.controller)
                  THEN [dr EXCEPT !.pc = AfterCheck(dr.op), !.i = 1]
                  ELSE [dr EXCEPT !.i = dr.i + 1]
    /\ UNCHANGED <<notDriver, fs, cwd, n_ops>>

(***************************************************************************)
(* cgroup_create_cgroup (api.c:1162-1276) with cg_create_control_group,    *)
(* cg_mkdir_p, cg_chown_recursive and cg_set_control_value.                *)
(***************************************************************************)
CreateStart ==
    /\ dr.pc = "idle" /\ n_ops < MaxOps
    /\ n_ops' = n_ops + 1
    /\ \E cg \in CgroupArgs(CreateValues) \cup {NullCgroup},
          ignore_ownership \in BOOLEAN :
        LET d == StartOp("cgroup_create_cgroup", cg, ignore_ownership, 0)
        IN  dr' = Enter(d, Finish(d, ECGROUPNOTALLOWED))
    /\ UNCHANGED <<notDriver, fs, cwd>>

\* api.c:1183-1189: the path buffer is allocated.
CreateAlloc ==
    /\ dr.pc = "cr_alloc"
    /\ \E ok \in BOOLEAN :
        dr' = IF ok THEN [dr EXCEPT !.pc = "cr_build", !.i = 1]
              ELSE Finish(dr, ECGOTHER)
    /\ UNCHANGED <<notDriver, fs, cwd, n_ops>>

\* api.c:1196-1199: the path of controller k is resolved under the reader
\* lock; a controller that does not resolve is passed over.
CreateBuild ==
    /\ dr.pc = "cr_build"
    /\ dr' = IF dr.i > Len(dr.cg.controller) THEN [dr EXCEPT !.pc = "cr_err"]
             ELSE LET r == cg_build_path_locked(cg_mount_table, GroupName,
                                dr.cg.controller[dr.i].name)
                  IN  IF ~r.found THEN [dr EXCEPT !.i = dr.i + 1]
                      ELSE [dr EXCEPT !.path = r, !.pc = "cr_group",
                              !.todo = @ + Len(dr.cg.controller[dr.i].values)]
    /\ UNCHANGED <<notDriver, fs, cwd, n_ops>>

\* How the opening of cg_create_control_group and cg_mkdir_p ends
\* (api.c:968, 891-902).
GroupIo == {"ok", "not_mounted", "getcwd", "strdup"}

\* api.c:965-972 and 891-902: cg_test_mounted_fs, then getcwd and strdup.
CreateControlGroup ==
    /\ dr.pc = "cr_group"
    /\ \E io \in GroupIo :
        dr' = CASE io = "not_mounted" ->
                    [dr EXCEPT !.error = ECGROUPNOTMOUNTED, !.fatal = TRUE,
                               !.pc = "cr_err"]
                [] io \in {"getcwd", "strdup"} ->
                    [dr EXCEPT !.error = ECGOTHER, !.cwd0 = cwd,
                               !.restore_failed = FALSE, !.pc = "walk_done"]
                [] OTHER ->
                    [dr EXCEPT !.cwd0 = cwd, !.seg = 1,
                               !.restore_failed = FALSE, !.pc = "walk_seg"]
    /\ UNCHANGED <<notDriver, fs, cwd, n_ops>>

\* The segments of the path being created.
WalkSegs(d) == Segs(d.path.mount) \o <<d.path.group>>

\* How one pass of the walk's loop goes (api.c:914-943).
WalkIo == {"ok", "eperm", "eacces", "wd_alloc", "chdir"}

\* api.c:904-945: one segment: mkdir, strdup of the segment, chdir into it.
\* The mount path exists; the group's directory exists as fs says. A mkdir
\* of a directory that exists fails with EEXIST, which is not an error.
WalkSeg ==
    /\ dr.pc = "walk_seg"
    /\ LET segs == WalkSegs(dr)
           m == dr.path.mount
           last == dr.seg = Len(segs)
           exists == ~last \/ fs[m].exists
       IN  \E io \in (IF exists THEN WalkIo \ {"eperm", "eacces"} ELSE WalkIo) :
            IF io \in {"eperm", "eacces"}
            THEN /\ dr' = [dr EXCEPT !.error = IF io = "eperm"
                                               THEN ECGROUPNOTOWNER
                                               ELSE ECGROUPNOTALLOWED,
                                     !.pc = "walk_done"]
                 /\ UNCHANGED <<fs, cwd>>
            ELSE /\ fs' = IF last THEN [fs EXCEPT ![m].exists = TRUE] ELSE fs
                 /\ CASE io = "wd_alloc" ->
                            /\ dr' = [dr EXCEPT !.error = ECGOTHER,
                                                !.pc = "walk_restore"]
                            /\ UNCHANGED cwd
                      [] io = "chdir" ->
                            /\ dr' = [dr EXCEPT !.error = "-1",
                                                !.pc = "walk_restore"]
                            /\ UNCHANGED cwd
                      [] OTHER ->
                            /\ cwd' = IF dr.seg = 1 THEN <<segs[1]>>
                                      ELSE Append(cwd, segs[dr.seg])
                            /\ dr' = [dr EXCEPT !.error = OK,
                                        !.seg = dr.seg + 1,
                                        !.pc = IF last THEN "walk_restore"
                                               ELSE "walk_seg"]
    /\ UNCHANGED <<notDriver, n_ops>>

\* api.c:947-952: chdir(buf); its result is the walk's result.
WalkRestore ==
    /\ dr.pc = "walk_restore"
    /\ \E ok \in BOOLEAN :
        IF ok THEN /\ cwd' = dr.cwd0
                   /\ dr' = [dr EXCEPT !.error = OK, !.pc = "walk_done"]
        ELSE /\ UNCHANGED cwd
             /\ dr' = [dr EXCEPT !.error = ECGOTHER,
                                 !.restore_failed = TRUE, !.pc = "walk_done"]
    /\ UNCHANGED <<notDriver, fs, n_ops>>

\* api.c:954-956 and 1201-1203: the walk returns to create.
WalkReturn ==
    /\ dr.pc = "walk_done"
    /\ dr' = IF dr.error # OK THEN [dr EXCEPT !.fatal = TRUE, !.pc = "cr_err"]
             ELSE [dr EXCEPT !.pc = "cr_base"]
    /\ UNCHANGED <<notDriver, fs, cwd, n_ops>>

\* api.c:1205-1211: base = strdup(path).
CreateBase ==
    /\ dr.pc = "cr_base"
    /\ \E ok \in BOOLEAN :
        dr' = IF ~ok THEN [dr EXCEPT !.error = ECGOTHER, !.fatal = TRUE,
                                     !.pc = "cr_err"]
              ELSE IF dr.flag THEN [dr EXCEPT !.j = 1, !.pc = "cr_value"]
              ELSE [dr EXCEPT !.pc = "cr_chown"]
    /\ UNCHANGED <<notDriver, fs, cwd, n_ops>>

\* A call that passes a NULL stream or cursor to fclose or fts_close is
\* undefined: the thread faults, or goes on to pc.
AfterNullClose(pc) == {pc, "crashed"}

\* api.c:1213-1220 with cg_chown_recursive (159-176): the cursor is opened,
\* the entries are chowned (the result is that of the last entry), and the
\* cursor is closed whether or not its open succeeded.
CreateChown ==
    /\ dr.pc = "cr_chown"
    /\ \E fts_ok \in BOOLEAN, res \in {OK, ECGOTHER} :
        IF ~fts_ok
        THEN \E q \in AfterNullClose("cr_value") :
                dr' = [dr EXCEPT !.misclose = TRUE, !.error = OK, !.j = 1,
                                 !.pc = q]
        ELSE dr' = IF res # OK
                   THEN [dr EXCEPT !.error = res, !.fatal = TRUE,
                                   !.pc = "cr_err"]
                   ELSE [dr EXCEPT !.error = OK, !.j = 1, !.pc = "cr_value"]
    /\ UNCHANGED <<notDriver, fs, cwd, n_ops>>

\* How the write of one value ends: the path does not fit (api.c:1227),
\* or cg_set_control_value (980-1017) finds no cgroup filesystem mounted,
\* opens and writes the file, fails to open it with EPERM (and then opens
\* the tasks file, fails with ENOENT, or fails with another errno), or
\* fails to open it with another errno.
ValueIo == {"ok", "too_long", "not_mounted", "eperm_tasks_ok",
            "eperm_tasks_enoent", "eperm_tasks_other", "enoent"}

\* cg_set_control_value: the value returned.
cg_set_control_value(io) ==
    CASE io = "ok" -> OK
      [] io = "not_mounted" -> ECGROUPNOTMOUNTED
      [] io = "eperm_tasks_ok" -> ECGROUPNOTALLOWED
      [] io = "eperm_tasks_enoent" -> ECGROUPSUBSYSNOTMOUNTED
      [] io = "eperm_tasks_other" -> ECGROUPNOTALLOWED
      [] io = "enoent" -> ECGROUPVALUENOTEXIST

\* api.c:1222-1247: one pass of the loop over the values of controller k.
\* A failed write is kept in retval and the loop goes on.
CreateValue ==
    /\ dr.pc = "cr_value"
    /\ IF dr.j > Len(dr.cg.controller[dr.i].values)
       THEN dr' = [dr EXCEPT !.pc = "cr_tasks"]
       ELSE \E io \in ValueIo :
            IF io = "too_long"
            THEN dr' = [dr EXCEPT !.error = ECGOTHER, !.fatal = TRUE,
                                  !.pc = "cr_err"]
            ELSE LET e == cg_set_control_value(io)
                     d == [dr EXCEPT
                            !.error = e, !.writes = @ + 1, !.j = dr.j + 1,
                            !.retval = IF e # OK THEN e ELSE @,
                            !.first_fail = IF e # OK /\ @ = OK THEN e ELSE @]
                 IN  IF io = "eperm_tasks_other"
                     THEN \E q \in AfterNullClose("cr_value") :
                            dr' = [d EXCEPT !.misclose = TRUE, !.pc = q]
                     ELSE dr' = d
    /\ UNCHANGED <<notDriver, fs, cwd, n_ops>>

\* api.c:1249-1265: the tasks file is chowned unless ownership is ignored,
\* and the loop goes to the next controller.
CreateTasksChown ==
    /\ dr.pc = "cr_tasks"
    /\ IF dr.flag
       THEN dr' = [dr EXCEPT !.i = dr.i + 1, !.pc = "cr_build"]
       ELSE \E ok \in BOOLEAN :
            dr' = IF ok THEN [dr EXCEPT !.error = OK, !.i = dr.i + 1,
                                        !.pc = "cr_build"]
                  ELSE [dr EXCEPT !.error = ECGOTHER, !.fatal = TRUE,
                                  !.pc = "cr_err"]
    /\ UNCHANGED <<notDriver, fs, cwd, n_ops>>

\* api.c:1268-1275.
CreateErr ==
    /\ dr.pc = "cr_err"
    /\ dr' = Finish(dr, IF dr.retval # OK /\ dr.error = OK THEN dr.retval
                        ELSE dr.error)
    /\ UNCHANGED <<notDriver, fs, cwd, n_ops>>

\* The call returns to its caller.
DriverReturn ==
    /\ dr.pc = "done"
    /\ dr' = IdleDriver
    /\ UNCHANGED <<notDriver, fs, cwd, n_ops>>

CreateStep ==
    \/ CreateStart \/ CheckMounted \/ CreateAlloc \/ CreateBuild
    \/ CreateControlGroup \/ WalkSeg \/ WalkRestore \/ WalkReturn
    \/ CreateBase \/ CreateChown \/ CreateValue \/ CreateTasksChown
    \/ CreateErr \/ DriverReturn

NextCreate == CgroupInitDriver \/ CreateStep

SpecCreate == Init /\ [][NextCreate]_vars

(***************************************************************************)
(* C5: in create, when value writes fail and no fatal error occurs, every  *)
(* value of every resolved controller is still attempted and the error     *)
(* returned is that of the first write that failed; when a fatal error     *)
(* occurs, the fatal error is returned.                                    *)
(***************************************************************************)
C5_FirstWriteErrorReturned ==
    (dr.pc = "done" /\ dr.op = "cgroup_create_cgroup")
        => IF dr.fatal THEN dr.ret = dr.error
           ELSE /\ dr.writes = dr.todo
                /\ dr.first_fail # OK => dr.ret = dr.first_fail

(***************************************************************************)
(* C6: on every return of the directory-creation walk the working          *)
(* directory of the process is the one the caller had when the walk        *)
(* started (all segments created, a mkdir failing after earlier segments   *)
(* were entered, a chdir into a segment failing, an allocation failing).   *)
(***************************************************************************)
C6_WalkRestoresCwd ==
    (dr.pc = "walk_done" /\ ~dr.restore_failed) => cwd = dr.cwd0

(***************************************************************************)
(* Other processes on the cgroup filesystem, between the calls of the      *)
(* driver thread: a group directory is made, a task is moved into the      *)
(* group or back into the root group.                                      *)
(***************************************************************************)
EnvMkdir ==
    /\ dr.pc = "idle"
    /\ \E m \in MountDirs :
        /\ ~fs[m].exists
        /\ fs' = [fs EXCEPT ![m].exists = TRUE]
    /\ UNCHANGED <<notDriver, cwd, dr, n_ops>>

EnvMove ==
    /\ dr.pc = "idle"
    /\ \E m \in MountDirs, tid \in Tids, to_group \in BOOLEAN :
        /\ fs[m].exists
        /\ fs' = [fs EXCEPT ![m] = KernelMove(@, Digits(tid), to_group)]
        /\ fs'[m] # fs[m]
    /\ UNCHANGED <<notDriver, cwd, dr, n_ops>>

(***************************************************************************)
(* cgroup_attach_task_pid (api.c:814-859).                                 *)
(***************************************************************************)
\* How the write of a tid to a tasks file goes (api.c:774-797).
AttachIo == {"ok", "eperm", "eacces", "fprintf", "fflush"}

\* __cgroup_attach_task_pid (api.c:769-804): the value returned for a
\* tasks file whose directory exists or not.
attach_task_pid(exists, io) ==
    IF ~exists THEN ECGROUPNOTEXIST
    ELSE CASE io = "eperm" -> ECGROUPNOTOWNER
           [] io = "eacces" -> ECGROUPNOTALLOWED
           [] io \in {"fprintf", "fflush"} -> ECGOTHER
           [] OTHER -> OK

AttachStart ==
    /\ dr.pc = "idle" /\ n_ops < MaxOps
    /\ n_ops' = n_ops + 1
    /\ \E cg \in CgroupArgs({<<>>}) \cup {NullCgroup}, tid \in Tids :
        LET d == StartOp("cgroup_attach_task_pid", cg, FALSE, tid)
        IN  dr' = Enter(d, [d EXCEPT !.pc = "at_root", !.i = 1])
    /\ UNCHANGED <<notDriver, fs, cwd>>

\* api.c:825-838: with a NULL cgroup the tid is written to the root tasks
\* file of every visible entry, under one hold of the reader lock; the
\* first failed write ends the call. fail_at: the entry whose write fails
\* (0: none).
AttachRoot ==
    /\ dr.pc = "at_root"
    /\ LET n == FirstEmpty(cg_mount_table)
       IN  \E fail_at \in 0..n, io \in AttachIo \ {"ok"} :
            LET done == IF fail_at = 0 THEN n ELSE fail_at - 1
                moved == {cg_mount_table[k - 1].path : k \in 1..done}
            IN  /\ fail_at = 0 => io = "eperm"
                /\ fs' = [m \in MountDirs |->
                            IF m \in moved
                            THEN KernelMove(fs[m], Digits(dr.tid), FALSE)
                            ELSE fs[m]]
                /\ dr' = Finish([dr EXCEPT !.wrote =
                                    {cg_mount_table[k - 1].name : k \in 1..done}],
                                IF fail_at = 0 THEN OK
                                ELSE attach_task_pid(TRUE, io))
    /\ UNCHANGED <<notDriver, cwd, n_ops>>

\* api.c:848-856: one pass of the loop: the path of controller i is
\* resolved under the reader lock, then the tid is written to the tasks
\* file; a controller that does not resolve is passed over.
AttachOne ==
    /\ dr.pc = "at_build"
    /\ IF dr.i > Len(dr.cg.controller)
       THEN dr' = Finish(dr, OK) /\ UNCHANGED fs
       ELSE LET c == dr.cg.controller[dr.i].name
                r == cg_build_path_locked(cg_mount_table, GroupName, c)
            IN  IF ~r.found
                THEN dr' = [dr EXCEPT !.i = dr.i + 1] /\ UNCHANGED fs
                ELSE \E io \in AttachIo :
                     LET ret == attach_task_pid(fs[r.mount].exists, io)
                     IN  IF ret # OK
                         THEN dr' = Finish(dr, ret) /\ UNCHANGED fs
                         ELSE /\ fs' = [fs EXCEPT ![r.mount] =
                                    KernelMove(@, Digits(dr.tid), TRUE)]
                              /\ dr' = [dr EXCEPT !.i = dr.i + 1,
                                                  !.wrote = @ \cup {c}]
    /\ UNCHANGED <<notDriver, cwd, n_ops>>

AttachStep ==
    \/ AttachStart \/ CheckMounted \/ AttachRoot \/ AttachOne \/ DriverReturn

NextAttach == CgroupInitDriver \/ EnvMkdir \/ EnvMove \/ AttachStep

SpecAttach == Init /\ [][NextAttach]_vars

(***************************************************************************)
(* C4: whenever attach(group, tid) with a non-null group returns success,  *)
(* tid has been written to the tasks file of the group under every         *)
(* controller listed in the group, also when another thread                *)
(* re-initialises the mount table between the mounted-checks and the       *)
(* path resolutions.                                                       *)
(***************************************************************************)
C4_AttachWritesEveryController ==
    (/\ dr.pc = "done" /\ dr.op = "cgroup_attach_task_pid"
     /\ ~dr.cg.null /\ dr.ret = OK)
        => \A k \in 1..Len(dr.cg.controller) :
                dr.cg.controller[k].name \in dr.wrote

(***************************************************************************)
(* cgroup_delete_cgroup (api.c:1385-1461).                                 *)
(***************************************************************************)
\* The task ids of a set in the order the tasks file lists them.
RECURSIVE Ascending(_)
Ascending(S) ==
    IF S = {} THEN <<>>
    ELSE LET lo == CHOOSE x \in S : \A y \in S : x <= y
         IN  <<lo>> \o Ascending(S \ {lo})

\* api.c:1428-1433: every id read with fscanf("%d") is written to the
\* parent's stream with fprintf("%d"); the stream holds the concatenation.
RECURSIVE MigrationBuffer(_)
MigrationBuffer(tids) ==
    IF Len(tids) = 0 THEN <<>>
    ELSE Digits(Head(tids)) \o MigrationBuffer(Tail(tids))

\* rmdir of the group directory of hierarchy h: "ENOENT" when it does not
\* exist, "EBUSY" while tasks are in the group, else as perm says.
rmdir(h, perm) ==
    IF ~h.exists THEN "ENOENT"
    ELSE IF h.tasks # {} THEN "EBUSY"
    ELSE IF perm THEN "ok" ELSE "EPERM"

\* The hierarchy after rmdir with result res.
AfterRmdir(h, res) == IF res = "ok" THEN NoGroup ELSE h

\* The tasks the group holds under the controllers of cg, by mount path.
TasksUnder(tab, cg) ==
    [m \in MountDirs |->
        IF \E k \in 1..Len(cg.controller) :
              LET r == cg_build_path_locked(tab, GroupName,
                                            cg.controller[k].name)
              IN  r.found /\ r.mount = m
        THEN fs[m].tasks ELSE {}]

DeleteStart ==
    /\ dr.pc = "idle" /\ n_ops < MaxOps
    /\ n_ops' = n_ops + 1
    /\ \E cg \in CgroupArgs({<<>>}) \cup {NullCgroup},
          ignore_migration \in BOOLEAN :
        LET d == [StartOp("cgroup_delete_cgroup", cg, ignore_migration, 0)
                    EXCEPT !.error = ECGROUPNOTALLOWED,
                           !.pre = TasksUnder(cg_mount_table, cg)]
        IN  dr' = Enter(d, Finish(d, ECGROUPNOTALLOWED))
    /\ UNCHANGED <<notDriver, fs, cwd>>

\* api.c:1404-1412: the path is resolved and the parent's tasks file
\* ("<group>/../tasks") opened for writing; a failed open leaves the loop.
DeleteOpenParent ==
    /\ dr.pc = "de_build"
    /\ IF dr.i > Len(dr.cg.controller)
       THEN dr' = [dr EXCEPT !.pc = "de_pass2", !.i = 1]
       ELSE LET r == cg_build_path_locked(cg_mount_table, GroupName,
                                          dr.cg.controller[dr.i].name)
            IN  IF ~r.found THEN dr' = [dr EXCEPT !.i = dr.i + 1]
                ELSE \E perm \in BOOLEAN :
                     dr' = IF fs[r.mount].exists /\ perm
                           THEN [dr EXCEPT !.path = r, !.open = @ + 1,
                                           !.pc = "de_open_group"]
                           ELSE [dr EXCEPT !.open_failed = dr.i,
                                           !.fail1 = TRUE,
                                           !.pc = "de_pass2", !.i = 1]
    /\ UNCHANGED <<notDriver, fs, cwd, n_ops>>

\* api.c:1414-1436: the path is resolved again, the group's tasks file is
\* opened and read to its end, and both streams are closed; the close of
\* the parent's stream hands its buffer to the kernel.
DeleteMigrate ==
    /\ dr.pc = "de_open_group"
    /\ LET r == cg_build_path_locked(cg_mount_table, GroupName,
                                     dr.cg.controller[dr.i].name)
       IN  IF ~r.found
           THEN /\ dr' = [dr EXCEPT !.open = @ - 1, !.i = dr.i + 1,
                                    !.pc = "de_build"]
                /\ UNCHANGED fs
           ELSE \E perm \in BOOLEAN :
                IF ~(fs[r.mount].exists /\ perm)
                THEN /\ dr' = [dr EXCEPT !.open = @ - 1,
                                         !.open_failed = dr.i,
                                         !.fail1 = TRUE,
                                         !.pc = "de_pass2", !.i = 1]
                     /\ UNCHANGED fs
                ELSE LET buf == MigrationBuffer(Ascending(fs[r.mount].tasks))
                     IN  /\ fs' = [fs EXCEPT ![dr.path.mount] =
                                        KernelMove(@, buf, FALSE)]
                         /\ dr' = [dr EXCEPT !.buf = buf, !.open = @ - 1,
                                             !.migrated = @ \cup {dr.i},
                                             !.pc = "de_rmdir"]
    /\ UNCHANGED <<notDriver, cwd, n_ops>>

\* api.c:1438-1442: the path is resolved a third time and the directory
\* removed; error is the result of this rmdir.
DeleteRmdir ==
    /\ dr.pc = "de_rmdir"
    /\ LET r == cg_build_path_locked(cg_mount_table, GroupName,
                                     dr.cg.controller[dr.i].name)
       IN  IF ~r.found
           THEN /\ dr' = [dr EXCEPT !.i = dr.i + 1, !.pc = "de_build"]
                /\ UNCHANGED fs
           ELSE \E perm \in BOOLEAN :
                LET res == rmdir(fs[r.mount], perm)
                IN  /\ fs' = [fs EXCEPT ![r.mount] = AfterRmdir(@, res)]
                    /\ dr' = [dr EXCEPT
                                !.error = IF res = "ok" THEN OK ELSE "-1",
                                !.rm1 = @ \cup {dr.i},
                                !.fail1 = @ \/ res # "ok",
                                !.i = dr.i + 1, !.pc = "de_build"]
    /\ UNCHANGED <<notDriver, cwd, n_ops>>

\* api.c:1444-1456: with ignore_migration, rmdir on the path of every
\* controller; ENOENT counts as removed.
DeletePass2 ==
    /\ dr.pc = "de_pass2"
    /\ IF ~dr.flag \/ dr.i > Len(dr.cg.controller)
       THEN dr' = [dr EXCEPT !.pc = "de_ret"] /\ UNCHANGED fs
       ELSE LET r == cg_build_path_locked(cg_mount_table, GroupName,
                                          dr.cg.controller[dr.i].name)
            IN  IF ~r.found
                THEN dr' = [dr EXCEPT !.i = dr.i + 1] /\ UNCHANGED fs
                ELSE \E perm \in BOOLEAN :
                     LET res == rmdir(fs[r.mount], perm)
                     IN  /\ fs' = [fs EXCEPT ![r.mount] = AfterRmdir(@, res)]
                         /\ dr' = [dr EXCEPT
                                    !.error = IF res \in {"ok", "ENOENT"}
                                              THEN OK ELSE "-1",
                                    !.rm2 = @ \cup {dr.i},
                                    !.hard2 = @ \/ res \in {"EBUSY", "EPERM"},
                                    !.i = dr.i + 1]
    /\ UNCHANGED <<notDriver, cwd, n_ops>>

\* api.c:1457-1460.
DeleteReturn ==
    /\ dr.pc = "de_ret"
    /\ dr' = Finish(dr, IF dr.error # OK THEN ECGOTHER ELSE OK)
    /\ UNCHANGED <<notDriver, fs, cwd, n_ops>>

DeleteStep ==
    \/ DeleteStart \/ CheckMounted \/ DeleteOpenParent \/ DeleteMigrate
    \/ DeleteRmdir \/ DeletePass2 \/ DeleteReturn \/ DriverReturn

NextDelete == CgroupInitDriver \/ EnvMkdir \/ EnvMove \/ DeleteStep

SpecDelete == Init /\ [][NextDelete]_vars

(***************************************************************************)
(* C8: for a group holding n >= 1 task ids under a controller, after       *)
(* delete has written the ids to the parent's tasks file for every listed  *)
(* controller and returned success, each of those ids is in the task list  *)
(* of the group's parent under that controller, none is left in the group. *)
(***************************************************************************)
C8_TasksReachParent ==
    (/\ dr.pc = "done" /\ dr.op = "cgroup_delete_cgroup" /\ dr.ret = OK
     /\ dr.migrated = 1..Len(dr.cg.controller))
        => \A m \in MountDirs : dr.pre[m] \cap fs[m].tasks = {}

(***************************************************************************)
(* C9: in delete the rmdir of a controller's group directory is issued     *)
(* only after the task ids read from the group's tasks file were written   *)
(* to the parent's; with ignore_migration clear, when a tasks file cannot  *)
(* be opened for a controller, no rmdir is issued for that controller or   *)
(* a later one and delete returns an error.                                *)
(***************************************************************************)
C9_OpenFailureIsAnError ==
    (dr.op = "cgroup_delete_cgroup")
        => /\ dr.rm1 \subseteq dr.migrated
           /\ (dr.pc = "done" /\ ~dr.flag /\ dr.open_failed # 0)
                => /\ dr.ret # OK
                   /\ \A k \in dr.rm1 \cup dr.rm2 : k < dr.open_failed

(***************************************************************************)
(* C10: in delete with ignore_migration set, the second pass of rmdir      *)
(* calls runs only when some removal of the first pass failed; in it a     *)
(* no-such-directory result counts as success, and any other rmdir         *)
(* failure on any controller makes delete return an error.                 *)
(***************************************************************************)
C10_SecondPassOnlyAfterFailure ==
    (dr.pc = "done" /\ dr.op = "cgroup_delete_cgroup" /\ dr.flag)
        => /\ dr.rm2 # {} => dr.fail1
           /\ dr.hard2 => dr.ret # OK

(***************************************************************************)
(* cgroup_modify_cgroup (api.c:1030-1073).                                 *)
(***************************************************************************)
ModifyStart ==
    /\ dr.pc = "idle" /\ n_ops < MaxOps
    /\ n_ops' = n_ops + 1
    /\ \E cg \in CgroupArgs(CreateValues) \cup {NullCgroup} :
        LET d == StartOp("cgroup_modify_cgroup", cg, FALSE, 0)
        IN  dr' = Enter(d, Finish(d, ECGROUPNOTALLOWED))
    /\ UNCHANGED <<notDriver, fs, cwd>>

\* api.c:1067-1069: `path` is declared without an initialiser; when no
\* value was written its test and free read an indeterminate pointer.
AfterWildFree(d) == IF d.writes = 0 THEN {"done", "crashed"} ELSE {"done"}

\* api.c:1051-1055: the base path of controller i is resolved.
ModifyBuild ==
    /\ dr.pc = "mo_build"
    /\ IF dr.i > Len(dr.cg.controller)
       THEN \E q \in AfterWildFree(dr) :
                dr' = [dr EXCEPT !.pc = q, !.ret = OK]
       ELSE LET r == cg_build_path_locked(cg_mount_table, GroupName,
                                          dr.cg.controller[dr.i].name)
            IN  dr' = IF ~r.found THEN [dr EXCEPT !.i = dr.i + 1]
                      ELSE [dr EXCEPT !.path = r, !.j = 1, !.pc = "mo_value"]
    /\ UNCHANGED <<notDriver, fs, cwd, n_ops>>

\* A loop over the values that keeps the error of a failed write and goes
\* on with the next value, as the loop of create does.
ModifyValueGoesOn ==
    /\ dr.pc = "mo_value"
    /\ IF dr.j > Len(dr.cg.controller[dr.i].values)
       THEN dr' = [dr EXCEPT !.i = dr.i + 1, !.pc = "mo_build"]
       ELSE \E io \in ValueIo :
            IF io = "too_long"
            THEN dr' = Finish(dr, ECGOTHER)
            ELSE LET e == cg_set_control_value(io)
                     d == [dr EXCEPT !.error = e, !.writes = @ + 1,
                                     !.j = dr.j + 1]
                 IN  IF io = "eperm_tasks_other"
                     THEN \E q \in AfterNullClose(d.pc) :
                            dr' = [d EXCEPT !.misclose = TRUE, !.pc = q]
                     ELSE dr' = d
    /\ UNCHANGED <<notDriver, fs, cwd, n_ops>>

\* api.c:1056-1070: one value is written; the first failure ends the call.
ModifyValue ==
    /\ dr.pc = "mo_value"
    /\ IF dr.j > Len(dr.cg.controller[dr.i].values)
       THEN dr' = [dr EXCEPT !.i = dr.i + 1, !.pc = "mo_build"]
       ELSE \E io \in ValueIo :
            IF io = "too_long"
            THEN dr' = Finish(dr, ECGOTHER)
            ELSE LET e == cg_set_control_value(io)
                     d == [dr EXCEPT !.error = e, !.writes = @ + 1,
                                     !.j = dr.j + 1]
                     ends == IF e # OK THEN Finish(d, e) ELSE d
                 IN  IF io = "eperm_tasks_other"
                     THEN \E q \in AfterNullClose(ends.pc) :
                            dr' = [ends EXCEPT !.misclose = TRUE, !.pc = q]
                     ELSE dr' = ends
    /\ UNCHANGED <<notDriver, fs, cwd, n_ops>>

(***************************************************************************)
(* cgroup_get_cgroup (api.c:1583-1706) with cgroup_fill_cgc (1506-1575)    *)
(* and cg_rd_ctrl_file (1468-1500), under the reader lock throughout.      *)
(***************************************************************************)
\* The regular files readdir finds in the group directory of a hierarchy:
\* the tasks file and a value file of the hierarchy's controller.
GroupFiles(m) ==
    IF m = "/cg/a" THEN <<[prefix |-> "", dotted |-> FALSE],
                          [prefix |-> "cpu", dotted |-> TRUE]>>
    ELSE <<[prefix |-> "", dotted |-> FALSE],
           [prefix |-> "memory", dotted |-> TRUE]>>

GetStart ==
    /\ dr.pc = "idle" /\ n_ops < MaxOps
    /\ n_ops' = n_ops + 1
    /\ \E null \in BOOLEAN :
        LET d == StartOp("cgroup_get_cgroup",
                         [null |-> null, controller |-> <<>>], FALSE, 0)
        IN  dr' = IF cgroup_initialized = 0
                  THEN Finish(d, ECGROUPNOTINITIALIZED)
                  ELSE IF null THEN Finish(d, ECGROUPNOTALLOWED)
                  ELSE [d EXCEPT !.pc = "get_entry", !.i = 0]
    /\ UNCHANGED <<notDriver, fs, cwd>>

\* How the steps between access() and opendir() end (api.c:1636-1670).
EntryIo == {"ok", "asprintf", "stat", "add_controller", "opendir"}

\* api.c:1604-1670: one entry of the table: the group's directory is
\* looked for, the tasks file stat'ed, the controller added and the
\* directory opened.
GetEntry ==
    /\ dr.pc = "get_entry"
    /\ IF dr.i >= FirstEmpty(cg_mount_table)
       THEN dr' = Finish(dr, IF dr.added = 0 THEN ECGROUPNOTEXIST ELSE OK)
       ELSE LET m == cg_build_path_locked(cg_mount_table, GroupName,
                        cg_mount_table[dr.i].name).mount
            IN  IF ~fs[m].exists THEN dr' = [dr EXCEPT !.i = dr.i + 1]
                ELSE \E io \in EntryIo :
                     dr' = CASE io \in {"asprintf", "stat", "opendir"} ->
                                    Finish(dr, ECGOTHER)
                             [] io = "add_controller" -> Finish(dr, ECGINVAL)
                             [] OTHER ->
                                    [dr EXCEPT !.path.mount = m,
                                               !.added = @ + 1,
                                               !.open = @ + 1, !.j = 1,
                                               !.pc = "get_file"]
    /\ UNCHANGED <<notDriver, fs, cwd, n_ops>>

\* How cgroup_fill_cgc goes for a file named "<controller>.<x>": the stat
\* fails, or cg_rd_ctrl_file fails to open the file, fails to allocate the
\* value, reads no token, or reads one that is then added or not.
FillIo == {"ok", "stat", "fopen", "malloc", "empty", "add_value"}

\* cg_rd_ctrl_file (api.c:1468-1500): [ret, leaked]; leaked: the stream
\* was opened and the function returned without closing it.
cg_rd_ctrl_file(io) ==
    CASE io = "fopen" -> [ret |-> ECGROUPVALUENOTEXIST, leaked |-> FALSE]
      [] io = "malloc" -> [ret |-> ECGOTHER, leaked |-> TRUE]
      [] OTHER -> [ret |-> OK, leaked |-> FALSE]

\* cgroup_fill_cgc (api.c:1506-1575) for file f of controller c:
\* [ret, leaked].
cgroup_fill_cgc(f, c, io) ==
    IF io = "stat" THEN [ret |-> ECGFAIL, leaked |-> FALSE]
    ELSE IF ~f.dotted THEN [ret |-> ECGINVAL, leaked |-> FALSE]
    ELSE IF f.prefix # c THEN [ret |-> OK, leaked |-> FALSE]
    ELSE LET r == cg_rd_ctrl_file(io)
         IN  IF r.ret # OK \/ io = "empty" THEN r
             ELSE IF io = "add_value"
                  THEN [ret |-> ECGFAIL, leaked |-> FALSE]
                  ELSE r

\* api.c:1672-1684: one directory entry; ECGFAIL closes the directory and
\* ends the call, any other result goes on with the next entry.
GetFile ==
    /\ dr.pc = "get_file"
    /\ LET files == GroupFiles(dr.path.mount)
       IN  IF dr.j > Len(files)
           THEN dr' = [dr EXCEPT !.open = @ - 1, !.i = dr.i + 1,
                                 !.pc = "get_entry"]
           ELSE \E io \in FillIo :
                LET r == cgroup_fill_cgc(files[dr.j],
                                         cg_mount_table[dr.i].name, io)
                    d == [dr EXCEPT !.error = r.ret,
                            !.open = IF r.leaked THEN @ + 1 ELSE @]
                IN  dr' = IF r.ret = ECGFAIL
                          THEN Finish([d EXCEPT !.open = @ - 1], ECGFAIL)
                          ELSE [d EXCEPT !.j = dr.j + 1]
    /\ UNCHANGED <<notDriver, fs, cwd, n_ops>>

(***************************************************************************)
(* cgroup_walk_tree_begin (api.c:2279-2312).                               *)
(***************************************************************************)
\* The call as a whole: the path is resolved under the reader lock, the
\* cursor opened and its first entry read. A cursor that failed to open
\* is read all the same, which is undefined: the read faults or fails.
WalkTreeBegin ==
    /\ dr.pc = "idle" /\ n_ops < MaxOps
    /\ n_ops' = n_ops + 1
    /\ \E c \in Controllers, fts_ok \in BOOLEAN, read_ok \in BOOLEAN :
        LET d == StartOp("cgroup_walk_tree_begin", NullCgroup, FALSE, 0)
            r == cg_build_path_locked(cg_mount_table, GroupName, c)
        IN  IF cgroup_initialized = 0
            THEN dr' = Finish(d, ECGROUPNOTINITIALIZED)
            ELSE IF ~r.found THEN dr' = Finish(d, ECGOTHER)
            ELSE IF ~fts_ok
                 THEN /\ ~read_ok
                      /\ \E q \in AfterNullClose("done") :
                            dr' = [d EXCEPT !.ret = ECGINVAL, !.pc = q]
                 ELSE dr' = IF read_ok
                            THEN Finish([d EXCEPT !.open = 1,
                                                  !.handed = TRUE], OK)
                            ELSE Finish([d EXCEPT !.open = 1], ECGINVAL)
    /\ UNCHANGED <<notDriver, fs, cwd>>

ResourceStep ==
    \/ ModifyStart \/ CheckMounted \/ ModifyBuild \/ ModifyValue
    \/ GetStart \/ GetEntry \/ GetFile \/ WalkTreeBegin \/ DriverReturn

NextResources == CgroupInitDriver \/ EnvMkdir \/ ResourceStep

SpecResources == Init /\ [][NextResources]_vars

(***************************************************************************)
(* C7: on every exit path of an operation each stream, directory handle    *)
(* and tree cursor it opened is closed exactly once before it returns,     *)
(* unless it is the handle a successful begin hands to the caller; no      *)
(* operation closes a handle whose open failed.                            *)
(***************************************************************************)
C7_HandlesReleased ==
    /\ ~dr.misclose
    /\ dr.pc = "done" => dr.open = (IF dr.handed THEN 1 ELSE 0)

(***************************************************************************)
(* Classification as one call (api.c:1866-1940): cache load, search of     *)
(* the cached list or match-mode parse, and the execution of the winning   *)
(* rule and its continuations, by one thread at a time.                    *)
(***************************************************************************)
Cont2Line == Line(Tok("%", ""), <<"cpu">>, "/users/alice_cpu")
NoSuchLine == Line(Tok("", "nosuch"), <<"cpu">>, "/nosuch")
NoGroupLine == Line(Tok("@", "nogroup"), <<"cpu">>, "/nogroup")
BobStarLine == Line(Tok("", "bob"), <<"*">>, "/users/bob")

\* Most lines of a rules file; most classifications in one run.
MaxLines == 3
MaxClassify == 1

ClassifyLines ==
    {WildLine, AliceLine, ContLine, Cont2Line, StaffLine, NoSuchLine,
     NoGroupLine, BobStarLine}

\* The rules files: every line at most once, so that a destination names
\* its line.
ClassifyFiles == DistinctSeqs(ClassifyLines, 1, MaxLines)

\* The callers classified: alice, bob (a member of staff), alice running
\* with gid staff, and a uid that has no passwd entry.
ClassifyCallers ==
    Callers \cup {[uid |-> 1, gid |-> 10], [uid |-> 3, gid |-> 3]}

\* The rules of the list lst, in list order.
RulesOf(mem, lst) ==
    LET as == ListFrom(mem, lst.head)
    IN  [k \in 1..Len(as) |-> mem[as[k]].rule]

\* cgroup_find_matching_rule_uid_gid (api.c:1780-1847) on the rules of the
\* cached list from position k: the position found, none, or the position
\* at which the loop continues without advancing.
RECURSIVE FindWinner(_, _, _, _)
FindWinner(rules, k, uid, gid) ==
    IF k > Len(rules) THEN [kind |-> "none", k |-> 0]
    ELSE LET m == RuleMatches(rules[k], uid, gid)
         IN  CASE m = "yes" -> [kind |-> "found", k |-> k]
               [] m = "spin" -> [kind |-> "spin", k |-> k]
               [] OTHER -> FindWinner(rules, k + 1, uid, gid)

\* cg_prepare_cgroup (api.c:1715-1767): the controllers the cgroup gets.
\* A "*" stands for every entry visible in the mount table and ends the
\* list.
cg_prepare_cgroup(tab, controllers) ==
    LET stars == {k \in 1..Len(controllers) : controllers[k] = "*"}
    IN  IF stars = {} THEN controllers
        ELSE LET s == CHOOSE k \in stars : \A j \in stars : k <= j
             IN  SubSeq(controllers, 1, s - 1)
                   \o [k \in 1..FirstEmpty(tab) |-> tab[k - 1].name]

\* cgroup_change_cgroup_path (api.c:1965-1985) for one rule: the cgroup is
\* prepared and the task attached; io is how the writes of the attach end
\* when every controller is mounted (api.c:840-846).
cgroup_change_cgroup_path(tab, rule, io) ==
    LET used == cg_prepare_cgroup(tab, rule.controllers)
    IN  [destination |-> rule.destination, listed |-> rule.controllers,
         used |-> used,
         ret |-> IF \E k \in 1..Len(used) :
                       ~cgroup_test_subsys_mounted(tab, used[k])
                 THEN ECGROUPSUBSYSNOTMOUNTED ELSE io]

\* An execution that stops after the winning rule.
ExecWinnerOnly(rules, k, tab, n, fail_at) ==
    <<cgroup_change_cgroup_path(tab, rules[k],
        IF n + 1 = fail_at THEN ECGROUPNOTEXIST ELSE OK)>>

\* The do-while of api.c:1921-1936 from rule k: the attaches attempted, in
\* order. n attaches were made before; the attach number fail_at fails.
RECURSIVE ExecChain(_, _, _, _, _)
ExecChain(rules, k, tab, n, fail_at) ==
    LET a == cgroup_change_cgroup_path(tab, rules[k],
                IF n + 1 = fail_at THEN ECGROUPNOTEXIST ELSE OK)
    IN  IF a.ret # OK THEN <<a>>
        ELSE IF k < Len(rules) /\ rules[k + 1].name.first = "%"
             THEN <<a>> \o ExecChain(rules, k + 1, tab, n + 1, fail_at)
             ELSE <<a>>

\* A result taken from the first attach.
ChainRetFirst(attaches) == attaches[1].ret

\* The result of the do-while: that of its last attach.
ChainRet(attaches) == attaches[Len(attaches)].ret

\* The rules file is written once, before the library is used.
WriteRulesFile ==
    /\ n_calls = 0 /\ n_init = 0 /\ call = NoCall
    /\ rules_file = <<AliceLine, ContLine>>
    /\ \E f \in ClassifyFiles : rules_file # f /\ rules_file' = f
    /\ UNCHANGED <<driverVars, tableVars, call, rule_mem, rl, trl, rl_lock,
                   th, n_calls>>

\* cgroup_init_rules_cache (api.c:2071-2087): the file is parsed into the
\* cached list under the rule lock, before the classifications.
LoadCache ==
    /\ n_calls = 0 /\ rl = EmptyList /\ rl_lock = NoThread
    /\ \E io \in ParseIo :
        LET r == cgroup_parse_rules(rules_file, TRUE, CGRULE_INVALID,
                                    CGRULE_INVALID, io)
            mem1 == IF r.cleaned THEN cgroup_free_rule_list(rule_mem, rl)
                    ELSE rule_mem
        IN  /\ rule_mem' = PushRules(mem1, r.rules)
            /\ rl' = IF r.cleaned THEN PushedList(mem1, r.rules) ELSE rl
            /\ call' = [op |-> "cgroup_init_rules_cache", ret |-> r.ret,
                        io |-> io]
    /\ UNCHANGED <<driverVars, tableVars, rules_file, trl, rl_lock, th,
                   n_calls>>

\* What a classification leaves in `call`.
Classified(c, flags, outcome, ret, attaches) ==
    [op |-> "cgroup_change_cgroup_uid_gid_flags", uid |-> c.uid,
     gid |-> c.gid, flags |-> flags, outcome |-> outcome, ret |-> ret,
     attaches |-> attaches, cached |-> RulesOf(rule_mem, rl)]

\* cgroup_change_cgroup_uid_gid_flags (api.c:1866-1940) with USECACHE.
ClassifyCached(c, fail_at) ==
    LET rules == RulesOf(rule_mem, rl)
        w == FindWinner(rules, 1, c.uid, c.gid)
        as == ExecChain(rules, w.k, cg_mount_table, 0, fail_at)
    IN  /\ call' = CASE w.kind = "spin" ->
                        Classified(c, CGFLAG_USECACHE, "hang", OK, <<>>)
                     [] w.kind = "none" ->
                        Classified(c, CGFLAG_USECACHE, "returned", OK, <<>>)
                     [] OTHER ->
                        Classified(c, CGFLAG_USECACHE, "returned",
                                   ChainRet(as), as)
        /\ rl_lock' = IF w.kind = "spin" THEN "t1" ELSE rl_lock
        /\ UNCHANGED <<rule_mem, trl>>

\* The same without USECACHE: the file is parsed in match mode into the
\* transient list, whose head is then executed.
ClassifyParsed(c, fail_at, io) ==
    LET r == cgroup_parse_rules(rules_file, FALSE, c.uid, c.gid, io)
        mem1 == IF r.cleaned THEN cgroup_free_rule_list(rule_mem, trl)
                ELSE rule_mem
        as == ExecChain(r.rules, 1, cg_mount_table, 0, fail_at)
    IN  /\ rule_mem' = PushRules(mem1, r.rules)
        /\ trl' = IF r.cleaned THEN PushedList(mem1, r.rules) ELSE trl
        /\ call' = CASE r.ret = "SIGSEGV" ->
                        Classified(c, 0, "crash", r.ret, <<>>)
                     [] r.ret = "-1" /\ Len(r.rules) > 0 ->
                        Classified(c, 0, "returned", ChainRet(as), as)
                     [] r.ret = "-1" ->
                        Classified(c, 0, "crash", "SIGSEGV", <<>>)
                     [] OTHER -> Classified(c, 0, "returned", r.ret, <<>>)
        /\ rl_lock' = IF r.ret = "SIGSEGV" THEN "t1" ELSE rl_lock

Classify ==
    /\ n_calls < MaxClassify /\ rl_lock = NoThread
    /\ n_calls' = n_calls + 1
    /\ \E c \in ClassifyCallers, fail_at \in 0..MaxLines :
        IF cgroup_initialized = 0
        THEN /\ \E flags \in {0, CGFLAG_USECACHE} :
                    call' = Classified(c, flags, "returned",
                                       ECGROUPNOTINITIALIZED, <<>>)
             /\ UNCHANGED <<rule_mem, trl, rl_lock>>
        ELSE \/ ClassifyCached(c, fail_at)
             \/ \E io \in ParseIo : ClassifyParsed(c, fail_at, io)
    /\ UNCHANGED <<driverVars, tableVars, rules_file, rl, th>>

\* The scans of the runs that classify: both controllers mounted, or cpu
\* alone.
ClassifyScans ==
    {[reg |-> <<"cpu", "memory">>,
      mounts |-> <<[type |-> "cgroup", dir |-> "/cg/a", opts |-> <<"cpu">>],
                   [type |-> "cgroup", dir |-> "/cg/b",
                    opts |-> <<"memory">>]>>],
     [reg |-> <<"cpu", "memory">>,
      mounts |-> <<[type |-> "cgroup", dir |-> "/cg/a",
                    opts |-> <<"cpu">>]>>]}

CgroupInitClassify == CgroupInitFrom(ClassifyScans, {"ok"})

NextClassify ==
    CgroupInitClassify \/ WriteRulesFile \/ LoadCache \/ Classify

SpecClassify == Init /\ [][NextClassify]_vars

(***************************************************************************)
(* What the rules say, read off a principal and a file.                    *)
(***************************************************************************)
\* The principal names a user or group that exists, or is the wildcard.
Resolves(user) ==
    CASE user.first = "*" -> TRUE
      [] user.first = "@" -> HasGrnam(user.rest)
      [] user.first = "%" -> FALSE
      [] OTHER -> HasPwnam(user.rest)

\* The principal is (a) the wildcard, (b) the user uid, (c) the group gid,
\* or (d) a group of which uid is a member.
PrincipalMatches(user, uid, gid) ==
    CASE user.first = "*" -> TRUE
      [] user.first = "@" ->
            /\ HasGrnam(user.rest)
            /\ \/ getgrnam(user.rest).gid = gid
               \/ /\ HasPwuid(uid)
                  /\ getpwuid(uid).name \in getgrnam(user.rest).mem
      [] user.first = "%" -> FALSE
      [] OTHER -> HasPwnam(user.rest) /\ getpwnam(user.rest).uid = uid

\* The first position of seq (of lines, or of rules with field `name`)
\* whose principal matches; 0 when there is none.
FirstMatch(names, uid, gid) ==
    LET hits == {k \in 1..Len(names) : PrincipalMatches(names[k], uid, gid)}
    IN  IF hits = {} THEN 0
        ELSE CHOOSE k \in hits : \A j \in hits : k <= j

\* The positions of the chain that starts at k: k and the continuation
\* lines that directly follow it.
ChainOf(names, k) ==
    {j \in k..Len(names) : \A i \in (k + 1)..j : names[i].first = "%"}

\* The position of the principal line that governs line j: the nearest
\* line at or before j that is no continuation; 0 when there is none.
Governor(names, j) ==
    LET ps == {i \in 1..j : names[i].first # "%"}
    IN  IF ps = {} THEN 0 ELSE CHOOSE i \in ps : \A h \in ps : h <= i

NamesOf(lines) == [k \in 1..Len(lines) |-> lines[k].user]
RuleNames(rules) == [k \in 1..Len(rules) |-> rules[k].name]

\* `call` is a classification made with the library initialised.
IsClassify ==
    /\ call.op = "cgroup_change_cgroup_uid_gid_flags"
    /\ call.ret # ECGROUPNOTINITIALIZED

\* The cached list is the one a load of the present file gives.
CacheIsOfFile ==
    call.cached = cgroup_parse_rules(rules_file, TRUE, CGRULE_INVALID,
                                     CGRULE_INVALID, "ok").rules

(***************************************************************************)
(* C11: with USECACHE, for any cached rule list and any (uid, gid), the    *)
(* classification executes the first rule in list order whose principal    *)
(* is a wildcard, has the uid, has the gid, or names a group of which the  *)
(* uid is a member, followed by its continuations only, and no later rule; *)
(* when no principal matches it returns without an attach.                 *)
(***************************************************************************)
C11_FirstMatchingRuleWins ==
    (IsClassify /\ call.flags = CGFLAG_USECACHE)
        => LET names == RuleNames(call.cached)
               k == FirstMatch(names, call.uid, call.gid)
           IN  /\ call.outcome = "returned"
               /\ IF k = 0 THEN call.attaches = <<>>
                  ELSE /\ call.attaches # <<>>
                       /\ call.attaches[1].destination =
                              call.cached[k].destination
                       /\ \A a \in 1..Len(call.attaches) :
                            \E j \in ChainOf(names, k) :
                                call.attaches[a].destination =
                                    call.cached[j].destination

\* The position in the file of the line with destination d.
LineAt(d) == CHOOSE j \in 1..Len(rules_file) : rules_file[j].destination = d

(***************************************************************************)
(* C12: when the winning rule is directly followed in the file by k        *)
(* continuation lines, a classification that returns success has made      *)
(* exactly k + 1 attaches, in file order, the i-th to the i-th line's      *)
(* destination on the i-th line's controllers; one that returns a failure  *)
(* has made a prefix of them; none is made for a later rule; with USECACHE *)
(* (the cache loaded from the file) and without it.                        *)
(***************************************************************************)
C12_ChainExecutedInOrder ==
    LET names == NamesOf(rules_file)
        k == FirstMatch(names, call.uid, call.gid)
    IN  (/\ IsClassify /\ call.outcome = "returned"
         /\ call.flags = CGFLAG_USECACHE => CacheIsOfFile
         /\ k # 0)
            => /\ Len(call.attaches) <= Cardinality(ChainOf(names, k))
               /\ call.ret = OK
                    => Len(call.attaches) = Cardinality(ChainOf(names, k))
               /\ \A i \in 1..Len(call.attaches) :
                    /\ call.attaches[i].destination =
                            rules_file[k + i - 1].destination
                    /\ call.attaches[i].listed =
                            rules_file[k + i - 1].controllers

\* A classification that executed a winning rule and two continuations.
C12_Witness ==
    /\ IsClassify /\ call.outcome = "returned" /\ call.ret = OK
    /\ call.flags = CGFLAG_USECACHE /\ CacheIsOfFile
    /\ Len(call.attaches) = 3

(***************************************************************************)
(* C13: a continuation line whose preceding principal rule does not match  *)
(* (uid, gid) is never executed and never selected as the winning rule,    *)
(* in match-mode parsing and in cached-list matching alike.                *)
(***************************************************************************)
C13_ContinuationNeedsItsPrincipal ==
    (IsClassify /\ (call.flags = CGFLAG_USECACHE => CacheIsOfFile))
        => \A a \in 1..Len(call.attaches) :
            LET names == NamesOf(rules_file)
                j == LineAt(call.attaches[a].destination)
                g == Governor(names, j)
            IN  names[j].first = "%"
                    => /\ g # 0
                       /\ PrincipalMatches(names[g], call.uid, call.gid)

\* A classification that executed a rule of a file holding a continuation
\* of a principal that does not match the caller.
C13_Witness ==
    /\ IsClassify /\ call.attaches # <<>>
    /\ call.flags = CGFLAG_USECACHE /\ CacheIsOfFile
    /\ \E j \in 2..Len(rules_file) :
        /\ rules_file[j].user.first = "%"
        /\ rules_file[j - 1].user.first = ""
        /\ Resolves(rules_file[j - 1].user)
        /\ ~PrincipalMatches(rules_file[j - 1].user, call.uid, call.gid)

\* Line j stays in the rule list: it is not governed by a principal that
\* fails to resolve.
Kept(names, j) ==
    LET g == Governor(names, j) IN g = 0 \/ Resolves(names[g])

\* The destinations of the lines of the file that stay, in file order.
KeptDestinations(file) ==
    LET idx == SelectSeq([j \in 1..Len(file) |-> j],
                         LAMBDA j : Kept(NamesOf(file), j))
    IN  [k \in 1..Len(idx) |-> file[idx[k]].destination]

(***************************************************************************)
(* C14: when a rule's principal fails to resolve (unknown user or group),  *)
(* that rule and every continuation line directly following it are left    *)
(* out of the resulting rule list, the parse goes on with the next         *)
(* principal rule and succeeds, and the skipped continuations are not      *)
(* chained to the valid rule before the skipped one.                       *)
(***************************************************************************)
C14_UnresolvedRuleSkipped ==
    (call.op = "cgroup_init_rules_cache" /\ call.io = "ok")
        => /\ call.ret = OK
           /\ LET rules == RulesOf(rule_mem, rl)
              IN  [k \in 1..Len(rules) |-> rules[k].destination]
                      = KeptDestinations(rules_file)

\* A load of a file in which a valid rule is followed by a rule that does
\* not resolve and its continuation.
C14_Witness ==
    /\ call.op = "cgroup_init_rules_cache" /\ call.io = "ok"
    /\ Len(rules_file) = 3
    /\ Resolves(rules_file[1].user)
    /\ rules_file[2].user.first # "%" /\ ~Resolves(rules_file[2].user)
    /\ rules_file[3].user.first = "%"
    /\ rl # EmptyList

(***************************************************************************)
(* C16: when an attach of a chain fails, the classification returns that   *)
(* failure at once: the failed attach is the last one attempted, no later  *)
(* continuation of the chain is attempted, and the attaches made before it *)
(* stay as they were made (each of them succeeded and is still recorded).  *)
(***************************************************************************)
C16_ChainStopsAtFailure ==
    (IsClassify /\ call.outcome = "returned")
        => \A a \in 1..Len(call.attaches) :
            IF call.attaches[a].ret # OK
            THEN a = Len(call.attaches) /\ call.ret = call.attaches[a].ret
            ELSE a = Len(call.attaches) => call.ret = OK

\* A chain of three lines whose second attach failed.
C16_Witness ==
    /\ IsClassify /\ call.outcome = "returned"
    /\ Len(rules_file) = 3
    /\ rules_file[2].user.first = "%" /\ rules_file[3].user.first = "%"
    /\ Len(call.attaches) = 2
    /\ call.attaches[1].ret = OK /\ call.attaches[2].ret # OK
    /\ call.ret # OK

(***************************************************************************)
(* C15: an attach made for a rule whose controller field is '*' is under   *)
(* exactly the controllers matched by the most recent successful scan of   *)
(* init, whatever the table held when the rules were loaded: no controller *)
(* of the scan is left out and no other controller is used.                *)
(***************************************************************************)
C15_WildcardUsesCurrentTable ==
    (IsClassify /\ call.outcome = "returned")
        => \A a \in 1..Len(call.attaches) :
            call.attaches[a].listed = <<"*">>
                => {call.attaches[a].used[k] :
                        k \in 1..Len(call.attaches[a].used)}
                     = {last_scan[k].name : k \in 1..Len(last_scan)}

(***************************************************************************)
(* What init is to return, read off the two files.                         *)
(***************************************************************************)
\* Some registered controller is a mount option of a mount entry of type
\* cgroup.
SomeControllerMounted(scan) ==
    \E m \in 1..Len(scan.mounts) :
        /\ scan.mounts[m].type = "cgroup"
        /\ \E c \in 1..Len(scan.reg) :
            \E o \in 1..Len(scan.mounts[m].opts) :
                scan.mounts[m].opts[o] = scan.reg[c]

(***************************************************************************)
(* C17: init returns success exactly when some registered controller is a  *)
(* mount option of a cgroup mount entry; when none is, it returns          *)
(* not-mounted and no entry of the table is visible; when /proc/cgroups or *)
(* /proc/mounts can not be opened or read (or a buffer not allocated), it  *)
(* returns the kind other and last_errno holds the errno of the failure.   *)
(***************************************************************************)
C17_InitReturnKinds ==
    call.op = "cgroup_init"
        => IF call.io # "ok"
           THEN call.ret = ECGOTHER /\ call.errno_set
           ELSE /\ call.ret = OK <=> SomeControllerMounted(call.scan)
                /\ ~SomeControllerMounted(call.scan)
                    => /\ call.ret = ECGROUPNOTMOUNTED
                       /\ Visible(cg_mount_table) = <<>>

(***************************************************************************)
(* C18: no controller name is in more than one visible entry of the mount  *)
(* table, whatever the mount list held, two cgroup mount entries naming    *)
(* the same controller included.                                           *)
(***************************************************************************)
C18_VisibleNamesDistinct ==
    LET v == Visible(cg_mount_table)
    IN  \A i, j \in 1..Len(v) : v[i].name = v[j].name => i = j

(***************************************************************************)
(* cgroup_init on files of any length: the indices it writes.              *)
(***************************************************************************)
\* Subsystem names /proc/cgroups may list, more of them than
\* controllers[] has slots.
ProcCgroupsNames ==
    <<"cpu", "memory", "cpuacct", "cpuset", "devices", "freezer", "ns",
      "net_cls", "blkio">>

\* /proc/cgroups listing the first n names and /proc/mounts mounting the
\* first k of them, each by a cgroup entry of its own.
LongScans ==
    UNION {{[reg |-> SubSeq(ProcCgroupsNames, 1, n),
             mounts |-> [m \in 1..k |->
                            [type |-> "cgroup", dir |-> "/cg/a",
                             opts |-> <<ProcCgroupsNames[m]>>]]] :
                k \in 0..n} : n \in 1..(CG_CONTROLLER_MAX + 1)}

\* The indices of controllers[] written for n lines of /proc/cgroups: one
\* per name and the NULL after them (api.c:610-618).
ControllerWrites(n) == 0..n

\* The indices of cg_mount_table written for found matches: one per match
\* (api.c:647-651) and the empty name (api.c:661-669).
TableWrites(found) ==
    IF found = 0 THEN {0}
    ELSE 0..(found - 1) \cup {TerminatorIndex(found)}

\* The process has died in a call of cgroup_init.
InitCrashed ==
    /\ call.op = "cgroup_init"
    /\ "outcome" \in DOMAIN call
    /\ call.outcome = "SIGSEGV"

\* cgroup_init (api.c:562-688) with nothing bounding the two files. A
\* write past the end of controllers[] or of cg_mount_table lands in
\* whatever the build has placed behind the array: the call goes on with
\* the slots inside the table written, or the process faults.
CgroupInitLong ==
    /\ ~InitCrashed
    /\ n_init < MaxInits
    /\ cg_mount_table_lock = FreeLock
    /\ n_init' = n_init + 1
    /\ UNCHANGED <<notTable, cg_mount_table_lock, ini, rdr>>
    /\ \E sc \in LongScans :
        LET r == cgroup_init(cg_mount_table, cgroup_initialized,
                             sc.reg, sc.mounts, "ok")
            tw == TableWrites(Len(r.matches))
            cw == ControllerWrites(Len(sc.reg))
            past == \E w \in tw \cup cw : w >= CG_CONTROLLER_MAX
        IN  \E outcome \in
                (IF past THEN {"returned", "SIGSEGV"} ELSE {"returned"}) :
                /\ cg_mount_table' = r.tab
                /\ cgroup_initialized' = r.inited
                /\ last_scan' = IF r.ret = OK THEN r.matches ELSE last_scan
                /\ call' = [op |-> "cgroup_init", ret |-> r.ret,
                            matches |-> r.matches,
                            errno_set |-> r.errno_set,
                            io |-> "ok", scan |-> sc,
                            table_writes |-> tw, controller_writes |-> cw,
                            outcome |-> outcome]

NextLong == CgroupInitLong

SpecLong == Init /\ [][NextLong]_vars

(***************************************************************************)
(* C19: for any number of registered controllers and of matches, init      *)
(* writes no entry and no terminating empty entry at an index of the mount *)
(* table at or above its capacity, stores no more controller names than    *)
(* controllers[] holds, and after a successful init an entry with an empty *)
(* name exists at an index below the capacity.                             *)
(***************************************************************************)
C19_InitStaysInsideArrays ==
    (call.op = "cgroup_init" /\ "table_writes" \in DOMAIN call)
        => /\ \A w \in call.table_writes : w < CG_CONTROLLER_MAX
           /\ Len(call.scan.reg) <= CG_CONTROLLER_MAX
           /\ (call.outcome = "returned" /\ call.ret = OK)
                => \E i \in 0..(CG_CONTROLLER_MAX - 1) :
                        cg_mount_table[i].name = ""

(***************************************************************************)
(* cgroup_init and the readers of the mount table, statement by statement, *)
(* under cg_mount_table_lock.                                              *)
(***************************************************************************)
\* A reader that takes the lock whatever its state.
RdLockUnguarded(lock) == TRUE

\* pthread_rwlock_rdlock returns: no writer holds the lock.
CanRdLock(lock) == ~lock.writer

\* pthread_rwlock_wrlock returns: nobody holds the lock.
CanWrLock(lock) == ~lock.writer /\ lock.readers = 0

\* The operations that read the mount table.
ReadOps ==
    {"cgroup_attach_task", "cgroup_create_cgroup", "cgroup_modify_cgroup",
     "cgroup_delete_cgroup", "cgroup_get_cgroup", "cgroup_find_parent",
     "cgroup_change_cgroup_uid_gid_flags", "cgroup_walk_tree_begin"}

\* How the read section of an operation goes through the table: over every
\* visible entry (api.c:825-838, 1603-1697, 1736-1752), to the entry of
\* one controller (cg_build_path, api.c:760-766), or entry 0 alone
\* (api.c:1290-1296).
SectionOf(op) ==
    IF op \in {"cgroup_attach_task", "cgroup_get_cgroup",
               "cgroup_change_cgroup_uid_gid_flags"} THEN "walk"
    ELSE IF op = "cgroup_find_parent" THEN "first"
    ELSE "lookup"

\* api.c:580-632: the writer lock is taken and the two files are read.
InitLock ==
    /\ ini.pc = "idle"
    /\ n_init < MaxInits
    /\ CanWrLock(cg_mount_table_lock)
    /\ cg_mount_table_lock' = [cg_mount_table_lock EXCEPT !.writer = TRUE]
    /\ \E io \in InitIo :
       \E sc \in (IF io = "ok" THEN ClassifyScans ELSE {NoScan}) :
           LET r == cgroup_init(cg_mount_table, cgroup_initialized,
                                sc.reg, sc.mounts, io)
           IN  ini' = [pc |-> IF io = "ok" THEN "scan" ELSE "unlock",
                       io |-> io, scan |-> sc,
                       matches |-> ScanMatches(sc.reg, sc.mounts),
                       found_mnt |-> 0,
                       ret |-> IF io = "ok" THEN OK ELSE r.ret,
                       errno_set |-> r.errno_set, partial |-> FALSE]
    /\ UNCHANGED <<cgroup_initialized, cg_mount_table, n_init, last_scan,
                   rdr, call, notTable>>

\* api.c:647-655: one match is stored at cg_mount_table[found_mnt].
InitStore ==
    /\ ini.pc = "scan"
    /\ ini.found_mnt < Len(ini.matches)
    /\ cg_mount_table' = [cg_mount_table EXCEPT
                            ![ini.found_mnt] = ini.matches[ini.found_mnt + 1]]
    /\ ini' = [ini EXCEPT !.found_mnt = @ + 1, !.partial = TRUE]
    /\ UNCHANGED <<cgroup_initialized, n_init, last_scan,
                   cg_mount_table_lock, rdr, call, notTable>>

\* api.c:660-671: the empty name is stored after the scan.
InitTerminate ==
    /\ ini.pc = "scan"
    /\ ini.found_mnt = Len(ini.matches)
    /\ IF ini.found_mnt = 0
       THEN /\ cg_mount_table' = [cg_mount_table EXCEPT ![0].name = ""]
            /\ ini' = [ini EXCEPT !.pc = "unlock", !.partial = FALSE,
                                  !.ret = ECGROUPNOTMOUNTED]
            /\ UNCHANGED cgroup_initialized
       ELSE /\ cg_mount_table' =
                [cg_mount_table EXCEPT
                    ![TerminatorIndex(ini.found_mnt)].name = ""]
            /\ ini' = [ini EXCEPT !.pc = "unlock", !.partial = FALSE]
            /\ cgroup_initialized' = 1
    /\ UNCHANGED <<n_init, last_scan, cg_mount_table_lock, rdr, call,
                   notTable>>

\* unlock_exit (api.c:673-687): the lock is released and ret returned.
InitUnlock ==
    /\ ini.pc = "unlock"
    /\ cg_mount_table_lock' = [cg_mount_table_lock EXCEPT !.writer = FALSE]
    /\ n_init' = n_init + 1
    /\ last_scan' = IF ini.ret = OK THEN ini.matches ELSE last_scan
    /\ call' = [op |-> "cgroup_init", ret |-> ini.ret,
                matches |-> IF ini.io = "ok" THEN ini.matches ELSE <<>>,
                errno_set |-> ini.errno_set, io |-> ini.io,
                scan |-> ini.scan]
    /\ ini' = IdleInit
    /\ UNCHANGED <<cgroup_initialized, cg_mount_table, rdr, notTable>>

\* Thread r starts an operation and comes to its pthread_rwlock_rdlock.
ReaderCall(r) ==
    /\ rdr[r].pc = "idle"
    /\ \E op \in ReadOps :
       \E type \in (IF SectionOf(op) = "lookup" THEN Controllers ELSE {""}) :
           rdr' = [rdr EXCEPT ![r] =
                    [IdleReader EXCEPT !.pc = "rdlock", !.op = op,
                                       !.type = type,
                                       !.raced = ini.pc # "idle"]]
    /\ UNCHANGED <<cgroup_initialized, cg_mount_table, n_init, last_scan,
                   cg_mount_table_lock, ini, call, notTable>>

\* pthread_rwlock_rdlock(&cg_mount_table_lock) returns in thread r.
ReaderLock(r) ==
    /\ rdr[r].pc = "rdlock"
    /\ CanRdLock(cg_mount_table_lock)
    /\ cg_mount_table_lock' = [cg_mount_table_lock EXCEPT !.readers = @ + 1]
    /\ rdr' = [rdr EXCEPT ![r].pc = "reading"]
    /\ UNCHANGED <<cgroup_initialized, cg_mount_table, n_init, last_scan,
                   ini, call, notTable>>

\* Thread r reads cg_mount_table[i] in its section: the loop ends at the
\* empty name, at the controller looked up, or after entry 0.
ReaderRead(r) ==
    /\ rdr[r].pc = "reading"
    /\ rdr[r].i < CG_CONTROLLER_MAX
    /\ LET e == cg_mount_table[rdr[r].i]
           kind == SectionOf(rdr[r].op)
           ends == \/ e.name = ""
                   \/ kind = "first"
                   \/ kind = "lookup" /\ e.name = rdr[r].type
       IN  rdr' = [rdr EXCEPT
                    ![r].torn = @ \/ ini.partial,
                    ![r].i = IF ends THEN @ ELSE @ + 1,
                    ![r].pc = IF ends THEN "unlock" ELSE "reading"]
    /\ UNCHANGED <<cgroup_initialized, cg_mount_table, n_init, last_scan,
                   cg_mount_table_lock, ini, call, notTable>>

\* pthread_rwlock_unlock(&cg_mount_table_lock) in thread r.
ReaderUnlock(r) ==
    /\ rdr[r].pc = "unlock"
    /\ cg_mount_table_lock' = [cg_mount_table_lock EXCEPT !.readers = @ - 1]
    /\ rdr' = [rdr EXCEPT ![r] = IdleReader]
    /\ UNCHANGED <<cgroup_initialized, cg_mount_table, n_init, last_scan,
                   ini, call, notTable>>

ReaderCallStep == \E r \in Readers : ReaderCall(r)
ReaderLockStep == \E r \in Readers : ReaderLock(r)
ReaderReadStep == \E r \in Readers : ReaderRead(r)
ReaderUnlockStep == \E r \in Readers : ReaderUnlock(r)

NextLock ==
    \/ InitLock \/ InitStore \/ InitTerminate \/ InitUnlock
    \/ ReaderCallStep \/ ReaderLockStep \/ ReaderReadStep \/ ReaderUnlockStep

SpecLock == Init /\ [][NextLock]_vars

(***************************************************************************)
(* C20: init holds the writer lock from before its first write to the      *)
(* table until after its last one on every exit path; a thread reads an    *)
(* entry of the table only while it holds the reader lock; and no thread   *)
(* running an operation concurrently with init reads an entry of a table   *)
(* that init has written in part.                                          *)
(***************************************************************************)
C20_NoReadOfPartlyWrittenTable ==
    /\ (ini.pc \in {"scan", "unlock"} \/ ini.partial)
            => cg_mount_table_lock.writer
    /\ \A r \in Readers :
        /\ rdr[r].pc \in {"reading", "unlock"}
            => /\ cg_mount_table_lock.readers > 0
               /\ ~cg_mount_table_lock.writer
               /\ ~ini.partial
        /\ ~rdr[r].torn

\* A thread that called while init was between its writes has since read
\* entries of the table, beside another reader inside its section.
C20_Witness ==
    \E r, q \in Readers :
        /\ r # q
        /\ rdr[r].pc = "reading" /\ rdr[r].raced /\ rdr[r].i > 0
        /\ rdr[q].pc = "reading"
        /\ n_init > 0

(***************************************************************************)
(* create, read, modify and create_from_parent on the files of the         *)
(* hierarchies.                                                            *)
(***************************************************************************)
\* The directory mount point m holds for the group `name`.
DirOf(d, m, name) == d[m].dirs[name]

\* The segments of a group name below its mount point, outermost first.
GroupSegs(name) == IF name = "p/g" THEN <<"p", "p/g">> ELSE <<name>>

\* A walk that takes an existing segment for an error.
MkdirExclusive(mnt, name, io) ==
    LET segs == GroupSegs(name)
    IN  IF \E k \in 1..Len(segs) : mnt.dirs[segs[k]].exists
        THEN [mnt |-> mnt, ret |-> ECGROUPNOTALLOWED]
        ELSE [mnt |-> [mnt EXCEPT !.dirs =
                        [g \in AllGroups |->
                            IF \E k \in 1..Len(segs) : segs[k] = g
                            THEN KernelDir(mnt.ctrls) ELSE @[g]]],
              ret |-> OK]

\* cg_mkdir_p (api.c:882-957) for the group `name` of the hierarchy mnt:
\* every segment is made unless it exists (EEXIST is no error); with io
\* "eperm" the mkdir of a missing segment fails with EPERM.
cg_mkdir_p(mnt, name, io) ==
    LET segs == GroupSegs(name)
        missing == {k \in 1..Len(segs) : ~mnt.dirs[segs[k]].exists}
    IN  IF io = "eperm" /\ missing # {}
        THEN [mnt |-> mnt, ret |-> ECGROUPNOTOWNER]
        ELSE [mnt |-> [mnt EXCEPT !.dirs =
                        [g \in AllGroups |->
                            IF \E k \in missing : segs[k] = g
                            THEN KernelDir(mnt.ctrls) ELSE @[g]]],
              ret |-> OK]

\* cg_chown_recursive with cg_chown_file (api.c:118-176): every directory
\* at or below that of `name` gets the owner and mode 0775, every file in
\* them the owner and mode 0664.
cg_chown_recursive(mnt, name, owner) ==
    [mnt EXCEPT !.dirs =
        [g \in AllGroups |->
            IF g \in Beneath(name) /\ @[g].exists
            THEN [@[g] EXCEPT
                    !.owner = owner, !.mode = "0775",
                    !.files = [f \in AllFiles |->
                                IF @[f].present
                                THEN [@[f] EXCEPT !.owner = owner,
                                                  !.mode = "0664"]
                                ELSE @[f]]]
            ELSE @[g]]]

\* cg_set_control_value (api.c:980-1017) on a directory: the file is
\* opened "r+", which fails with ENOENT when the file or its directory
\* is not there, and the kernel takes the text written as the new content.
SetControlValue(dir, v) ==
    IF ~dir.exists \/ v.name \notin AllFiles \/ ~dir.files[v.name].present
    THEN [dir |-> dir, ret |-> ECGROUPVALUENOTEXIST]
    ELSE [dir |-> [dir EXCEPT !.files[v.name].content = v.value],
          ret |-> OK]

\* api.c:1222-1247: the values of one controller are written from the
\* j-th on; a failed write is kept in retval and the loop goes on.
RECURSIVE WriteValues(_, _, _, _)
WriteValues(dir, values, j, retval) ==
    IF j > Len(values) THEN [dir |-> dir, retval |-> retval]
    ELSE LET w == SetControlValue(dir, values[j])
         IN  WriteValues(w.dir, values, j + 1,
                         IF w.ret # OK THEN w.ret ELSE retval)

\* api.c:1196-1266: the loop of cgroup_create_cgroup from controller k on.
\* [disk, error, retval].
RECURSIVE CreateLoop(_, _, _, _, _, _, _)
CreateLoop(d, tab, cg, k, ignore_ownership, io, retval) ==
    IF k > Len(cg.controller)
    THEN [disk |-> d, error |-> OK, retval |-> retval]
    ELSE
    LET c == cg.controller[k]
        bp == cg_build_path_locked(tab, cg.name, c.name)
    IN  IF ~bp.found
        THEN CreateLoop(d, tab, cg, k + 1, ignore_ownership, io, retval)
        ELSE
        LET m == bp.mount
            made == cg_mkdir_p(d[m], cg.name, io)
            owned == IF ignore_ownership THEN made.mnt
                     ELSE cg_chown_recursive(made.mnt, cg.name,
                                             cg.control_uid)
            w == WriteValues(owned.dirs[cg.name], c.values, 1, retval)
            dir == IF ignore_ownership THEN w.dir
                   ELSE [w.dir EXCEPT !.files[TasksFile].owner =
                                            cg.tasks_uid]
        IN  IF made.ret # OK
            THEN [disk |-> d, error |-> made.ret, retval |-> retval]
            ELSE CreateLoop([d EXCEPT ![m] =
                                [owned EXCEPT !.dirs[cg.name] = dir]],
                            tab, cg, k + 1, ignore_ownership, io, w.retval)

\* cgroup_create_cgroup (api.c:1162-1275): [disk, ret].
cgroup_create_cgroup(d, tab, inited, cg, ignore_ownership, io) ==
    IF inited = 0 THEN [disk |-> d, ret |-> ECGROUPNOTINITIALIZED]
    ELSE IF \E k \in 1..Len(cg.controller) :
                ~cgroup_test_subsys_mounted(tab, cg.controller[k].name)
    THEN [disk |-> d, ret |-> ECGROUPSUBSYSNOTMOUNTED]
    ELSE LET r == CreateLoop(d, tab, cg, 1, ignore_ownership, io, OK)
         IN  [disk |-> r.disk,
              ret |-> IF r.retval # OK /\ r.error = OK THEN r.retval
                      ELSE r.error]

\* A scan of the directory that compares the second token of a file name
\* with the controller.
FillBySuffix(dir, c) ==
    LET fs_ == SelectSeq(ReaddirOrder,
                 LAMBDA f : /\ dir.files[f].present
                            /\ Len(f) >= 2
                            /\ f[2] = c
                            /\ dir.files[f].content # <<>>)
    IN  [k \in 1..Len(fs_) |->
            [name |-> fs_[k], value |-> <<dir.files[fs_[k]].content[1]>>]]

\* The readdir loop of cgroup_get_cgroup with cgroup_fill_cgc and
\* cg_rd_ctrl_file (api.c:1468-1575, 1672-1684): the values added to the
\* block of controller c. A file is taken when its name has a second
\* token and its first is c; fscanf("%s") reads the first token of its
\* content, and a file with none adds nothing.
FillValues(dir, c) ==
    LET fs_ == SelectSeq(ReaddirOrder,
                 LAMBDA f : /\ dir.files[f].present
                            /\ Len(f) >= 2
                            /\ f[1] = c
                            /\ dir.files[f].content # <<>>)
    IN  [k \in 1..Len(fs_) |->
            [name |-> fs_[k], value |-> <<dir.files[fs_[k]].content[1]>>]]

\* The owner cgroup_fill_cgc leaves in control_uid (api.c:1541-1542): that
\* of the last file of the directory.
LastOwner(dir, before) ==
    LET fs_ == SelectSeq(ReaddirOrder, LAMBDA f : dir.files[f].present)
    IN  IF fs_ = <<>> THEN before ELSE dir.files[fs_[Len(fs_)]].owner

\* A test that finds every directory.
AccessAlways(dir) == TRUE

\* access(path, F_OK) == 0 (api.c:1621): the directory is there.
access(dir) == dir.exists

\* How the reads of cgroup_get_cgroup end: all succeed, opendir fails, or
\* the stat of a file in cgroup_fill_cgc fails.
GetIo == {"ok", "opendir", "stat"}

\* api.c:1603-1684: the loop of cgroup_get_cgroup over the table from
\* entry i on. [cg, error].
RECURSIVE GetLoop(_, _, _, _, _)
GetLoop(d, tab, cg, i, io) ==
    IF i >= FirstEmpty(tab) THEN [cg |-> cg, error |-> OK]
    ELSE
    LET c == tab[i].name
        bp == cg_build_path_locked(tab, cg.name, c)
        dir == DirOf(d, bp.mount, cg.name)
    IN  IF ~access(dir) THEN GetLoop(d, tab, cg, i + 1, io)
        ELSE IF ~dir.files[TasksFile].present
        THEN [cg |-> cg, error |-> ECGOTHER]
        ELSE
        LET added == [cg EXCEPT
                        !.tasks_uid = dir.files[TasksFile].owner,
                        !.controller = Append(@, [name |-> c,
                                                  values |-> <<>>])]
        IN  IF io = "opendir" THEN [cg |-> added, error |-> ECGOTHER]
            ELSE IF io = "stat" THEN [cg |-> added, error |-> ECGFAIL]
            ELSE GetLoop(d, tab,
                    [added EXCEPT
                        !.control_uid = LastOwner(dir, @),
                        !.controller[Len(added.controller)].values =
                            FillValues(dir, c)],
                    i + 1, io)

\* cgroup_get_cgroup (api.c:1583-1705): [cg, ret]. A failure releases
\* the controllers of the group.
cgroup_get_cgroup(d, tab, inited, cg, io) ==
    IF inited = 0 THEN [cg |-> cg, ret |-> ECGROUPNOTINITIALIZED]
    ELSE LET r == GetLoop(d, tab, cg, 0, io)
             error == IF r.error = OK /\ r.cg.controller = <<>>
                      THEN ECGROUPNOTEXIST ELSE r.error
         IN  IF error # OK
             THEN [cg |-> [r.cg EXCEPT !.controller = <<>>], ret |-> error]
             ELSE [cg |-> r.cg, ret |-> OK]

(***************************************************************************)
(* The calls on the files of the hierarchies.                              *)
(***************************************************************************)
\* Most calls on the files in one run.
MaxDiskOps == 2

\* The texts a value of a group carries, as their tokens.
DiskTexts == {<<"512">>, <<"1", "2">>}

\* The values a controller block may carry.
DiskValueLists(c) ==
    {<<>>} \cup {<<[name |-> n, value |-> v]>> :
                    n \in {AttrFile(c), NotifyFile, BogusFile(c)},
                    v \in DiskTexts}

\* The values of a block of a group with two blocks.
FewValueLists(c) ==
    {<<>>, <<[name |-> AttrFile(c), value |-> <<"512">>]>>,
     <<[name |-> BogusFile(c), value |-> <<"512">>]>>}

\* The controller blocks of a group argument.
DiskControllers ==
    {<<>>}
    \cup UNION {{<<[name |-> c, values |-> v]>> : v \in DiskValueLists(c)} :
                    c \in Controllers}
    \cup {<<[name |-> "cpu", values |-> v], [name |-> "memory", values |-> w]>> :
            v \in FewValueLists("cpu"), w \in FewValueLists("memory")}

\* struct cgroup (libcgroup.h): name, owners and controller blocks.
DiskCgroups ==
    {[name |-> n, controller |-> cs, tasks_uid |-> 7, control_uid |-> 7] :
        n \in DiskGroups, cs \in DiskControllers}

\* cgroup_new_cgroup(name): a group with no controller.
FreshCgroup(name) ==
    [name |-> name, controller |-> <<>>, tasks_uid |-> 0, control_uid |-> 0]

\* /proc/cgroups and /proc/mounts for the hierarchies of a layout; the
\* options of an entry are its controllers in either order.
ScansOf(layout) ==
    LET ms == SelectSeq(<<"/cg/a", "/cg/b">>,
                        LAMBDA m : layout[m].ctrls # {})
    IN  {[reg |-> <<"cpu", "memory">>,
          mounts |-> [k \in 1..Len(ms) |->
                        [type |-> "cgroup", dir |-> ms[k],
                         opts |-> IF layout[ms[k]].ctrls = Controllers
                                  THEN two ELSE
                                  <<CHOOSE c \in layout[ms[k]].ctrls : TRUE>>]]] :
            two \in {<<"cpu", "memory">>, <<"memory", "cpu">>}}

\* What a later call keeps of the call before it.
Brief(c) ==
    IF "cg" \in DOMAIN c
    THEN [op |-> c.op, cg |-> c.cg, flag |-> c.flag, ret |-> c.ret]
    ELSE [op |-> c.op, cg |-> FreshCgroup(RootGroup), flag |-> FALSE,
          ret |-> OK]

\* The system has its hierarchies mounted and the program calls
\* cgroup_init (api.c:562-688).
MountAndInit ==
    /\ n_init = 0
    /\ n_init' = 1
    /\ \E layout \in Layouts :
       \E sc \in ScansOf(layout) :
           LET r == cgroup_init(cg_mount_table, cgroup_initialized,
                                sc.reg, sc.mounts, "ok")
           IN  /\ disk' = layout
               /\ cg_mount_table' = r.tab
               /\ cgroup_initialized' = r.inited
               /\ last_scan' = IF r.ret = OK THEN r.matches ELSE last_scan
               /\ call' = [op |-> "cgroup_init", ret |-> r.ret,
                           matches |-> r.matches,
                           errno_set |-> r.errno_set,
                           io |-> "ok", scan |-> sc]
    /\ UNCHANGED <<cg_mount_table_lock, ini, rdr, ruleVars, fs, cwd, dr,
                   n_ops, hnd>>

\* The record of a finished call on the files.
DiskCall(op, cg, flag, io, ret, out) ==
    [op |-> op, cg |-> cg, flag |-> flag, io |-> io, ret |-> ret,
     outcome |-> "returned", out |-> out, before |-> disk,
     prev |-> Brief(call)]

\* cgroup_create_cgroup(cgroup, ignore_ownership).
DiskCreate ==
    /\ n_ops < MaxDiskOps
    /\ n_ops' = n_ops + 1
    /\ \E cg \in DiskCgroups, ignore_ownership \in BOOLEAN,
          io \in {"ok", "eperm"} :
        \* where mkdir fails no chown is reached: one flag is enough
        LET r == cgroup_create_cgroup(disk, cg_mount_table,
                    cgroup_initialized, cg, ignore_ownership, io)
        IN  /\ io = "eperm" => ignore_ownership
            /\ disk' = r.disk
            /\ call' = DiskCall("cgroup_create_cgroup", cg,
                                ignore_ownership, io, r.ret, cg)
    /\ UNCHANGED <<tableVars, ruleVars, fs, cwd, dr, hnd>>

\* api.c:1052-1065: the values of one controller are written from the
\* j-th on, up to the first write that fails.
RECURSIVE ModifyValues(_, _, _)
ModifyValues(dir, values, j) ==
    IF j > Len(values) THEN [dir |-> dir, ret |-> OK]
    ELSE LET w == SetControlValue(dir, values[j])
         IN  IF w.ret # OK THEN w ELSE ModifyValues(w.dir, values, j + 1)

\* api.c:1047-1066: the loop over the controllers of the group, from the
\* i-th on; `wrote` tells whether asprintf has set path.
RECURSIVE ModifyLoop(_, _, _, _, _)
ModifyLoop(d, tab, cg, i, wrote) ==
    IF i > Len(cg.controller)
    THEN [disk |-> d, ret |-> OK, wrote |-> wrote]
    ELSE
    LET c == cg.controller[i]
        bp == cg_build_path_locked(tab, cg.name, c.name)
    IN  IF ~bp.found THEN ModifyLoop(d, tab, cg, i + 1, wrote)
        ELSE
        LET w == ModifyValues(DirOf(d, bp.mount, cg.name), c.values, 1)
            e == [d EXCEPT ![bp.mount].dirs[cg.name] = w.dir]
        IN  IF w.ret # OK
            THEN [disk |-> e, ret |-> w.ret, wrote |-> TRUE]
            ELSE ModifyLoop(e, tab, cg, i + 1, wrote \/ c.values # <<>>)

\* What `char *path`, never initialised (api.c:1032), holds where
\* `if (path) free(path)` reads it with no value written before.
WildPointers == {"null", "garbage"}

\* cgroup_modify_cgroup (api.c:1030-1080): [disk, ret, outcome]. With no
\* value written, path is read uninitialised at api.c:1069: a null skips
\* the free, anything else is handed to free().
cgroup_modify_cgroup(d, tab, inited, cg, wild) ==
    IF inited = 0
    THEN [disk |-> d, ret |-> ECGROUPNOTINITIALIZED, outcome |-> "returned"]
    ELSE IF \E k \in 1..Len(cg.controller) :
                ~cgroup_test_subsys_mounted(tab, cg.controller[k].name)
    THEN [disk |-> d, ret |-> ECGROUPSUBSYSNOTMOUNTED,
          outcome |-> "returned"]
    ELSE LET r == ModifyLoop(d, tab, cg, 1, FALSE)
         IN  [disk |-> r.disk, ret |-> r.ret,
              outcome |-> IF ~r.wrote /\ wild = "garbage"
                          THEN "SIGSEGV" ELSE "returned"]

\* cgroup_modify_cgroup(cgroup).
DiskModify ==
    /\ n_ops < MaxDiskOps
    /\ n_ops' = n_ops + 1
    /\ \E cg \in DiskCgroups, wild \in WildPointers :
        LET r == cgroup_modify_cgroup(disk, cg_mount_table,
                    cgroup_initialized, cg, wild)
        IN  /\ Len(cg.controller) <= 1
            /\ disk' = r.disk
            /\ call' = [DiskCall("cgroup_modify_cgroup", cg, FALSE,
                                 wild, r.ret, cg)
                            EXCEPT !.outcome = r.outcome]
    /\ UNCHANGED <<tableVars, ruleVars, fs, cwd, dr, hnd>>

\* cgroup_find_parent (api.c:1282-1337): [found, name]. The path is
\* built under the first controller of the table; the directory above
\* the group must be there; above a top-level group is the mount point,
\* whose parent is on another device.
cgroup_find_parent(d, tab, name) ==
    LET bp == cg_build_path_locked(tab, name, tab[0].name)
        dir == dirname(name)
    IN  IF ~bp.found THEN [found |-> FALSE, name |-> ""]
        ELSE IF ~DirOf(d, bp.mount, dir).exists
        THEN [found |-> FALSE, name |-> ""]
        ELSE [found |-> TRUE, name |-> dir]

\* A copy that takes the owners of the source as well.
CopyWithOwners(dst, src) == [src EXCEPT !.name = dst.name]

\* cgroup_copy_cgroup (api.c:1097-1154): the controllers of dst are
\* released and those of src copied, names and values.
cgroup_copy_cgroup(dst, src) == [dst EXCEPT !.controller = src.controller]

\* cgroup_create_cgroup_from_parent (api.c:1342-1378): [disk, ret, cg].
cgroup_create_cgroup_from_parent(d, tab, inited, cg, ignore_ownership, io) ==
    IF inited = 0
    THEN [disk |-> d, ret |-> ECGROUPNOTINITIALIZED, cg |-> cg]
    ELSE
    LET parent == cgroup_find_parent(d, tab, cg.name)
        got == cgroup_get_cgroup(d, tab, inited, FreshCgroup(parent.name),
                                 io)
        copy == cgroup_copy_cgroup(cg, got.cg)
        made == cgroup_create_cgroup(d, tab, inited, copy,
                                     ignore_ownership, "ok")
    IN  IF ~parent.found THEN [disk |-> d, ret |-> ECGFAIL, cg |-> cg]
        ELSE IF got.ret # OK THEN [disk |-> d, ret |-> ECGFAIL, cg |-> cg]
        ELSE [disk |-> made.disk, ret |-> made.ret, cg |-> copy]

\* cgroup_create_cgroup_from_parent(cgroup, ignore_ownership).
DiskCreateFromParent ==
    /\ n_ops < MaxDiskOps
    /\ n_ops' = n_ops + 1
    /\ \E cg \in DiskCgroups, ignore_ownership \in BOOLEAN,
          io \in {"ok", "opendir"} :
        LET r == cgroup_create_cgroup_from_parent(disk, cg_mount_table,
                    cgroup_initialized, cg, ignore_ownership, io)
        IN  /\ Len(cg.controller) <= 1
            /\ \A k \in 1..Len(cg.controller) :
                   cg.controller[k].values \in FewValueLists(cg.controller[k].name)
            /\ disk' = r.disk
            /\ call' = DiskCall("cgroup_create_cgroup_from_parent", cg,
                                ignore_ownership, io, r.ret, r.cg)
    /\ UNCHANGED <<tableVars, ruleVars, fs, cwd, dr, hnd>>

\* cgroup_get_cgroup(cgroup) on a group just made by cgroup_new_cgroup.
DiskGet ==
    /\ n_ops < MaxDiskOps
    /\ n_ops' = n_ops + 1
    /\ \E name \in AllGroups, io \in GetIo :
        LET r == cgroup_get_cgroup(disk, cg_mount_table,
                    cgroup_initialized, FreshCgroup(name), io)
        IN  call' = DiskCall("cgroup_get_cgroup", FreshCgroup(name),
                             FALSE, io, r.ret, r.cg)
    /\ UNCHANGED <<tableVars, ruleVars, fs, cwd, dr, disk, hnd>>

NextDisk ==
    \/ MountAndInit
    \/ DiskCreate
    \/ DiskGet
    \/ DiskModify
    \/ DiskCreateFromParent

SpecDisk == Init /\ [][NextDisk]_vars

(***************************************************************************)
(* Properties of create and read.                                          *)
(***************************************************************************)
\* A value of block b names an attribute of b's controller and carries a
\* single token.
TokenAttribute(b, v) ==
    /\ Len(v.name) >= 2
    /\ v.name[1] = b.name
    /\ Len(v.value) = 1

\* Every value of the group is a single-token attribute of its block.
AllTokenAttributes(cg) ==
    \A k \in 1..Len(cg.controller) :
        \A j \in 1..Len(cg.controller[k].values) :
            TokenAttribute(cg.controller[k], cg.controller[k].values[j])

\* The call is a read, with no failing system call, of the group that the
\* call before it created with success on one controller or more.
ReadAfterCreate ==
    /\ call.op = "cgroup_get_cgroup"
    /\ call.io = "ok"
    /\ call.prev.op = "cgroup_create_cgroup"
    /\ call.prev.ret = OK
    /\ call.prev.cg.name = call.cg.name
    /\ call.prev.cg.controller # <<>>
    /\ AllTokenAttributes(call.prev.cg)

\* Group g holds, in a block named c, the value v.
HoldsValue(g, c, v) ==
    \E k \in 1..Len(g.controller) :
        /\ g.controller[k].name = c
        /\ \E j \in 1..Len(g.controller[k].values) :
               g.controller[k].values[j] = v

SecondCreate ==
    /\ call.op = "cgroup_create_cgroup"
    /\ call.prev.op = "cgroup_create_cgroup"
    /\ call.prev.ret = OK
    /\ call.prev.cg = call.cg
    /\ call.prev.flag = call.flag

SameTree(d, e) ==
    \A m \in DOMAIN d : \A g \in AllGroups :
        /\ e[m].dirs[g].exists = d[m].dirs[g].exists
        /\ e[m].dirs[g].owner = d[m].dirs[g].owner
        /\ e[m].dirs[g].mode = d[m].dirs[g].mode
        /\ \A f \in AllFiles :
            /\ e[m].dirs[g].files[f].present = d[m].dirs[g].files[f].present
            /\ e[m].dirs[g].files[f].owner = d[m].dirs[g].files[f].owner
            /\ e[m].dirs[g].files[f].mode = d[m].dirs[g].files[f].mode

\* The call is a modify, after cgroup_init, of a group with controllers,
\* all mounted, whose directory is under none of them.
ModifyOfMissingGroup ==
    /\ call.op = "cgroup_modify_cgroup"
    /\ cgroup_initialized = 1
    /\ call.cg.controller # <<>>
    /\ \A k \in 1..Len(call.cg.controller) :
        LET bp == cg_build_path_locked(cg_mount_table, call.cg.name,
                                       call.cg.controller[k].name)
        IN  /\ bp.found
            /\ ~DirOf(call.before, bp.mount, call.cg.name).exists

\* C26: modify creates no directory and changes no owner and no mode, only
\* the contents of attribute files; a modify of a group whose directory is
\* not there under its mounted controllers returns value-not-exist (and
\* creates nothing).
C26_ModifyOnlyWritesValues ==
    call.op = "cgroup_modify_cgroup" =>
        /\ SameTree(call.before, disk)
        /\ ModifyOfMissingGroup =>
              /\ call.outcome = "returned"
              /\ call.ret = ECGROUPVALUENOTEXIST

(***************************************************************************)
(* Properties of read.                                                     *)
(***************************************************************************)
\* The entries of the mount table, in table order, under whose mount path
\* the directory of the group was there when the call began.
EntriesWithGroup ==
    SelectSeq(Visible(cg_mount_table),
              LAMBDA e : call.before[e.path].dirs[call.cg.name].exists)

\* The names of the controller blocks of a group, in order.
BlockNames(g) == [k \in 1..Len(g.controller) |-> g.controller[k].name]

\* C27: a read of a group object with no controllers, with no failing
\* system call, returns success exactly when the directory of the group is
\* there under one mounted controller or more; the controllers of the group
\* read are then those mounted controllers, in mount table order; with no
\* such controller the read returns not-exists; and after every read that
\* fails the group has no controllers.
C27_ReadListsControllersWithGroup ==
    call.op = "cgroup_get_cgroup" =>
        /\ (cgroup_initialized = 1 /\ call.io = "ok") =>
              /\ call.ret = OK <=> EntriesWithGroup # <<>>
              /\ call.ret = OK =>
                    BlockNames(call.out) =
                        [k \in 1..Len(EntriesWithGroup) |->
                            EntriesWithGroup[k].name]
              /\ EntriesWithGroup = <<>> => call.ret = ECGROUPNOTEXIST
        /\ call.ret # OK => call.out.controller = <<>>

C27_Witness ==
    /\ call.op = "cgroup_get_cgroup"
    /\ call.cg.name = "p"
    /\ call.ret = OK
    /\ Len(Visible(cg_mount_table)) = 2
    /\ BlockNames(call.out) = <<"memory">>

(***************************************************************************)
(* Properties of create_from_parent.                                       *)
(***************************************************************************)
\* The name of the group above the group of the call.
ParentName == IF call.cg.name = "p/g" THEN "p" ELSE RootGroup

\* The directory of the parent under mount path m when the call began.
ParentDir(m) == call.before[m].dirs[ParentName]

\* The parent is located: its directory is there under the first entry of
\* the mount table.
ParentLocated == ParentDir(cg_mount_table[0].path).exists

\* The entries of the mount table, in order, under which the parent is.
EntriesWithParent ==
    SelectSeq(Visible(cg_mount_table), LAMBDA e : ParentDir(e.path).exists)

\* Block b holds just the attributes of its controller that directory dir
\* holds, each with the first token of its content.
BlockMirrors(b, dir) ==
    /\ \A j \in 1..Len(b.values) :
        /\ b.values[j].name \in AllFiles
        /\ b.values[j].name[1] = b.name
        /\ dir.files[b.values[j].name].present
        /\ b.values[j].value = <<dir.files[b.values[j].name].content[1]>>
    /\ \A f \in AllFiles :
        (dir.files[f].present /\ f[1] = b.name) =>
            \E j \in 1..Len(b.values) : b.values[j].name = f

\* C30: create_from_parent keeps the name and the owners of the group; with
\* the parent located and read, the controllers of the group become a copy
\* of those of the parent, values included, and the group is created with
\* them; with the parent not located or not read, the call returns fail,
\* makes no directory and leaves the controllers of the group as they were.
C30_CreateFromParent ==
    (call.op = "cgroup_create_cgroup_from_parent" /\ cgroup_initialized = 1) =>
        /\ call.out.name = call.cg.name
        /\ call.out.tasks_uid = call.cg.tasks_uid
        /\ call.out.control_uid = call.cg.control_uid
        /\ (ParentLocated /\ call.io = "ok") =>
              /\ call.ret = OK
              /\ BlockNames(call.out) =
                    [k \in 1..Len(EntriesWithParent) |->
                        EntriesWithParent[k].name]
              /\ \A k \in 1..Len(EntriesWithParent) :
                    LET m == EntriesWithParent[k].path
                        b == call.out.controller[k]
                        dir == disk[m].dirs[call.cg.name]
                    IN  /\ BlockMirrors(b, ParentDir(m))
                        /\ dir.exists
                        /\ ~call.flag => dir.owner = call.cg.control_uid
                        /\ \A j \in 1..Len(b.values) :
                              dir.files[b.values[j].name].content =
                                  b.values[j].value
        /\ ~(ParentLocated /\ call.io = "ok") =>
              /\ call.ret = ECGFAIL
              /\ disk = call.before
              /\ call.out.controller = call.cg.controller

C30_Witness ==
    /\ call.op = "cgroup_create_cgroup_from_parent"
    /\ call.ret = OK
    /\ ~call.flag
    /\ call.cg.name = "p/g"
    /\ BlockNames(call.cg) = <<"memory">>
    /\ BlockNames(call.out) = <<"cpu">>
    /\ call.out.controller[1].values =
          <<[name |-> AttrFile("cpu"), value |-> <<"512">>]>>
    /\ disk["/cg/a"].dirs["p/g"].files[AttrFile("cpu")].content = <<"512">>

C30_WitnessFail ==
    /\ call.op = "cgroup_create_cgroup_from_parent"
    /\ cgroup_initialized = 1
    /\ ~ParentLocated
    /\ call.cg.controller # <<>>

(***************************************************************************)
(* The iterators: statistics, tasks and the tree walk. The caller holds    *)
(* the handle in hnd: the stream or tree cursor behind it, what is left to *)
(* read, and what has been delivered.                                      *)
(***************************************************************************)
\* Most iterator calls in one run.
MaxIterOps == 6

\* The controllers named in a begin call: one mounted in every layout and
\* one never mounted.
IterControllers == {"cpu", "blkio"}

\* An open handle of kind k over the items `rest`.
OpenHandle(k, file, rest) ==
    [kind |-> k, ptr |-> "set", file |-> file, rest |-> rest,
     closes |-> 0, yielded |-> <<>>, depth |-> 0, base_level |-> 0]

\* The lines of a <controller>.stat file as the tokens strtok_r(line, " ")
\* cuts them in: name and value, a name alone, and a last line of blanks
\* with no token.
StatLines == {<<"user", "12">>, <<"system", "5">>, <<"user">>, <<>>}
StatFiles ==
    {<<>>} \cup {<<a>> : a \in StatLines}
           \cup {<<a, b>> : a \in StatLines, b \in StatLines}

\* struct cgroup_stat before the first call.
NoStat == [name |-> "", value |-> ""]

\* cg_read_stat (api.c:2318-2347) on the lines left in the stream:
\* [ret, stat, rest, eof, line]. ret is assigned ECGINVAL where a token is
\* missing, and the function ends in `return 0`.
cg_read_stat(rest, stat) ==
    IF rest = <<>>
    THEN [ret |-> ECGEOF, stat |-> stat, rest |-> rest, eof |-> TRUE,
          line |-> <<>>]
    ELSE
    LET line == Head(rest)
        named == IF Len(line) >= 1 THEN [stat EXCEPT !.name = line[1]]
                 ELSE stat
        valued == IF Len(line) >= 2 THEN [named EXCEPT !.value = line[2]]
                  ELSE named
    IN  [ret |-> OK, stat |-> valued, rest |-> Tail(rest), eof |-> FALSE,
         line |-> line]

\* The record of a finished statistics call.
StatsCall(op, r) ==
    [op |-> op, ret |-> r.ret, stat |-> r.stat, eof |-> r.eof,
     line |-> r.line, read |-> TRUE]

\* A statistics call that did not reach cg_read_stat.
StatsFailed(op, ret) ==
    [op |-> op, ret |-> ret, stat |-> NoStat, eof |-> FALSE, line |-> <<>>,
     read |-> FALSE]

\* cgroup_read_stats_begin (api.c:2384-2411).
StatsBegin ==
    /\ n_ops < MaxIterOps /\ hnd = NoHandle
    /\ n_ops' = n_ops + 1
    /\ \E file \in StatFiles, controller \in IterControllers,
          io \in {"ok", "fopen"} :
        LET op == "cgroup_read_stats_begin"
            bp == cg_build_path_locked(cg_mount_table, RootGroup, controller)
            r == cg_read_stat(file, NoStat)
        IN  IF cgroup_initialized = 0
            THEN /\ call' = StatsFailed(op, ECGROUPNOTINITIALIZED)
                 /\ hnd' = hnd
            ELSE IF ~bp.found
            THEN /\ call' = StatsFailed(op, ECGOTHER)
                 /\ hnd' = hnd
            ELSE IF io = "fopen"
            THEN /\ call' = StatsFailed(op, ECGINVAL)
                 /\ hnd' = hnd
            ELSE /\ call' = StatsCall(op, r)
                 /\ hnd' = OpenHandle("stats", file, r.rest)
    /\ UNCHANGED <<tableVars, ruleVars, fs, cwd, dr, disk>>

\* cgroup_read_stats_next (api.c:2364-2379); stat is what the call before
\* left in the caller's struct.
StatsNext ==
    /\ n_ops < MaxIterOps /\ hnd.kind = "stats" /\ hnd.ptr = "set"
    /\ n_ops' = n_ops + 1
    /\ LET r == cg_read_stat(hnd.rest, call.stat)
       IN  /\ call' = StatsCall("cgroup_read_stats_next", r)
           /\ hnd' = [hnd EXCEPT !.rest = r.rest]
    /\ UNCHANGED <<tableVars, ruleVars, fs, cwd, dr, disk>>

\* cgroup_read_stats_end (api.c:2349-2362): the stream is closed; the
\* caller drops the handle.
StatsEnd ==
    /\ n_ops < MaxIterOps /\ hnd.kind = "stats" /\ hnd.ptr = "set"
    /\ n_ops' = n_ops + 1
    /\ call' = StatsFailed("cgroup_read_stats_end", OK)
    /\ hnd' = [hnd EXCEPT !.ptr = "dropped", !.closes = @ + 1]
    /\ UNCHANGED <<tableVars, ruleVars, fs, cwd, dr, disk>>

\* The ids a tasks file holds, in file order.
TaskFiles == {<<>>, <<11>>, <<12, 11>>, <<11, 12, 13>>}

\* An end that leaves the caller's handle as it was.
TaskEndLeavesHandle(inited, h) ==
    IF inited = 0 THEN [h |-> h, ret |-> ECGROUPNOTINITIALIZED]
    ELSE IF h.ptr = "null" THEN [h |-> h, ret |-> ECGINVAL]
    ELSE [h |-> [h EXCEPT !.closes = @ + 1], ret |-> OK]

\* cgroup_get_task_end (api.c:2413-2425): [h, ret]. A null handle is
\* invalid; otherwise the stream is closed and the handle set to null.
cgroup_get_task_end(inited, h) ==
    IF inited = 0 THEN [h |-> h, ret |-> ECGROUPNOTINITIALIZED]
    ELSE IF h.ptr = "null" THEN [h |-> h, ret |-> ECGINVAL]
    ELSE [h |-> [h EXCEPT !.closes = @ + 1, !.ptr = "null"], ret |-> OK]

\* cgroup_get_task_next (api.c:2427-2447): [h, ret, pid]. fscanf("%u")
\* takes the next id of the stream, or returns EOF when none is left.
cgroup_get_task_next(inited, h) ==
    IF inited = 0 THEN [h |-> h, ret |-> ECGROUPNOTINITIALIZED, pid |-> 0]
    ELSE IF h.ptr = "null" THEN [h |-> h, ret |-> ECGINVAL, pid |-> 0]
    ELSE IF h.rest = <<>> THEN [h |-> h, ret |-> ECGEOF, pid |-> 0]
    ELSE [h |-> [h EXCEPT !.rest = Tail(@),
                          !.yielded = Append(@, Head(h.rest))],
          ret |-> OK, pid |-> Head(h.rest)]

\* The record of a finished task call: ptr is the caller's handle and
\* before the number of ids delivered when the call began.
TaskCall(op, r, h) ==
    [op |-> op, ret |-> r.ret, pid |-> r.pid, ptr |-> h.ptr,
     before |-> Len(h.yielded), closes |-> h.closes]

\* cgroup_get_task_begin (api.c:2449-2479): the tasks file is opened and
\* the first id read.
TaskBegin ==
    /\ n_ops < MaxIterOps /\ hnd = NoHandle
    /\ n_ops' = n_ops + 1
    /\ \E file \in TaskFiles, controller \in IterControllers,
          io \in {"ok", "fopen"} :
        LET op == "cgroup_get_task_begin"
            bp == cg_build_path_locked(cg_mount_table, RootGroup, controller)
            opened == OpenHandle("tasks", file, file)
            failed == [opened EXCEPT !.ptr = "null"]
            r == cgroup_get_task_next(cgroup_initialized, opened)
            none == [ret |-> ECGOTHER, pid |-> 0]
        IN  IF cgroup_initialized = 0
            THEN /\ call' = TaskCall(op, [none EXCEPT
                                !.ret = ECGROUPNOTINITIALIZED], failed)
                 /\ hnd' = hnd
            ELSE IF ~bp.found
            THEN /\ call' = TaskCall(op, none, failed)
                 /\ hnd' = hnd
            ELSE IF io = "fopen"
            THEN /\ call' = TaskCall(op, none, failed)
                 /\ hnd' = failed
            ELSE /\ call' = TaskCall(op, r, opened)
                 /\ hnd' = r.h
    /\ UNCHANGED <<tableVars, ruleVars, fs, cwd, dr, disk>>

TaskNext ==
    /\ n_ops < MaxIterOps /\ hnd.kind = "tasks"
    /\ n_ops' = n_ops + 1
    /\ LET r == cgroup_get_task_next(cgroup_initialized, hnd)
       IN  /\ call' = TaskCall("cgroup_get_task_next", r, hnd)
           /\ hnd' = r.h
    /\ UNCHANGED <<tableVars, ruleVars, fs, cwd, dr, disk>>

TaskEnd ==
    /\ n_ops < MaxIterOps /\ hnd.kind = "tasks"
    /\ n_ops' = n_ops + 1
    /\ LET r == cgroup_get_task_end(cgroup_initialized, hnd)
       IN  /\ call' = TaskCall("cgroup_get_task_end",
                               [ret |-> r.ret, pid |-> 0], hnd)
           /\ hnd' = r.h
    /\ UNCHANGED <<tableVars, ruleVars, fs, cwd, dr, disk>>

\* FTSENT: name, parent, level and fts_info of an entry that fts_read
\* returns.
Ent(name, parent, level, info) ==
    [name |-> name, parent |-> parent, level |-> level, info |-> info]

\* The entries fts_read returns for a hierarchy, in its order: a
\* directory before its entries (FTS_D) and after them (FTS_DP); with
\* FTS_NOSTAT a file is FTS_NSOK. The last tree is one fts_read returns
\* nothing for.
DeepTree ==
    <<Ent("a", "cg", 0, "FTS_D"), Ent("tasks", "a", 1, "FTS_NSOK"),
      Ent("p", "a", 1, "FTS_D"), Ent("tasks", "p", 2, "FTS_NSOK"),
      Ent("g", "p", 2, "FTS_D"), Ent("tasks", "g", 3, "FTS_NSOK"),
      Ent("g", "p", 2, "FTS_DP"), Ent("p", "a", 1, "FTS_DP"),
      Ent("a", "cg", 0, "FTS_DP")>>
FlatTree ==
    <<Ent("a", "cg", 0, "FTS_D"), Ent("tasks", "a", 1, "FTS_F"),
      Ent("q", "a", 1, "FTS_DNR"), Ent("a", "cg", 0, "FTS_DP")>>
Trees == {DeepTree, FlatTree, <<>>}

\* The max_depth a walk is started with; 0 is no limit.
WalkDepths == {0, 1, 2}

\* struct cgroup_file_info before the first call.
NoInfo == [path |-> "", parent |-> "", depth |-> 0, type |-> "none"]

\* cg_walk_node (api.c:2200-2239): [ret, info]. The record is filled
\* first; an entry deeper than depth then returns 0 with the type left
\* at other.
cg_walk_node(ent, depth) ==
    LET type == IF depth # 0 /\ ent.level > depth
                THEN "CGROUP_FILE_TYPE_OTHER"
                ELSE IF ent.info = "FTS_D" THEN "CGROUP_FILE_TYPE_DIR"
                ELSE IF ent.info = "FTS_F" THEN "CGROUP_FILE_TYPE_FILE"
                ELSE "CGROUP_FILE_TYPE_OTHER"
    IN  [ret |-> OK,
         info |-> [path |-> ent.name, parent |-> ent.parent,
                   depth |-> ent.level, type |-> type]]

\* The record of a finished walk call: root is the level of the entry the
\* walk began at, max_depth the depth it was begun with.
WalkCall(op, ret, info, root, max_depth) ==
    [op |-> op, ret |-> ret, info |-> info, root |-> root,
     max_depth |-> max_depth]

\* cgroup_walk_tree_begin (api.c:2279-2312).
TreeBegin ==
    /\ n_ops < MaxIterOps /\ hnd = NoHandle
    /\ n_ops' = n_ops + 1
    /\ \E tree \in Trees, controller \in IterControllers,
          depth \in WalkDepths :
        LET op == "cgroup_walk_tree_begin"
            bp == cg_build_path_locked(cg_mount_table, RootGroup, controller)
            ent == Head(tree)
            base_level == IF depth # 0 THEN ent.level + depth ELSE 0
            r == cg_walk_node(ent, base_level)
        IN  IF cgroup_initialized = 0
            THEN /\ call' = WalkCall(op, ECGROUPNOTINITIALIZED, NoInfo, 0,
                                     depth)
                 /\ hnd' = hnd
            ELSE IF ~bp.found
            THEN /\ call' = WalkCall(op, ECGOTHER, NoInfo, 0, depth)
                 /\ hnd' = hnd
            ELSE IF tree = <<>>
            THEN /\ call' = WalkCall(op, ECGINVAL, NoInfo, 0, depth)
                 /\ hnd' = hnd
            ELSE /\ call' = WalkCall(op, r.ret, r.info, ent.level, depth)
                 /\ hnd' = [OpenHandle("tree", tree, Tail(tree)) EXCEPT
                                !.depth = depth,
                                !.base_level = base_level]
    /\ UNCHANGED <<tableVars, ruleVars, fs, cwd, dr, disk>>

\* cgroup_walk_tree_next (api.c:2241-2261), called with the depth and the
\* base_level of the begin.
TreeNext ==
    /\ n_ops < MaxIterOps /\ hnd.kind = "tree" /\ hnd.ptr = "set"
    /\ n_ops' = n_ops + 1
    /\ LET op == "cgroup_walk_tree_next"
           ent == Head(hnd.rest)
           base_level == IF hnd.base_level = 0 /\ hnd.depth # 0
                         THEN ent.level + hnd.depth ELSE hnd.base_level
           r == cg_walk_node(ent, base_level)
       IN  IF hnd.rest = <<>>
           THEN /\ call' = WalkCall(op, ECGEOF, call.info, call.root,
                                    hnd.depth)
                /\ hnd' = hnd
           ELSE /\ call' = WalkCall(op, r.ret, r.info, call.root, hnd.depth)
                /\ hnd' = [hnd EXCEPT !.rest = Tail(@)]
    /\ UNCHANGED <<tableVars, ruleVars, fs, cwd, dr, disk>>

\* cgroup_walk_tree_end (api.c:2263-2274): the cursor is closed; the
\* caller drops the handle.
TreeEnd ==
    /\ n_ops < MaxIterOps /\ hnd.kind = "tree" /\ hnd.ptr = "set"
    /\ n_ops' = n_ops + 1
    /\ call' = WalkCall("cgroup_walk_tree_end", OK, call.info, call.root,
                        hnd.depth)
    /\ hnd' = [hnd EXCEPT !.ptr = "dropped", !.closes = @ + 1]
    /\ UNCHANGED <<tableVars, ruleVars, fs, cwd, dr, disk>>

\* Controller names as their characters: "cp" is a prefix of "cpu", and
\* "cpua" has "cpu" as a prefix.
Cp == <<"c", "p">>
Cpu == <<"c", "p", "u">>
Cpua == <<"c", "p", "u", "a">>
Mem == <<"m">>

\* The k-th char of the C string a; NUL from its end on.
CharAt(a, k) == IF k <= Len(a) THEN a[k] ELSE "NUL"

\* strncmp(a, b, n) == 0: the first n chars are equal, up to and with the
\* first NUL.
strncmp_eq(a, b, n) ==
    \A k \in 1..n :
        (\A j \in 1..(k - 1) : CharAt(a, j) # "NUL") =>
            CharAt(a, k) = CharAt(b, k)

\* A comparison over the length of the controller name only.
TokenHasPrefix(controller, token) ==
    strncmp_eq(controller, token, Len(controller))

\* api.c:2157: strncmp(controller, token, strlen(controller) + 1) == 0.
TokenMatches(controller, token) ==
    strncmp_eq(controller, token, Len(controller) + 1)

\* A line "id:controllers:path" of /proc/<pid>/cgroup: the tokens of its
\* controller list and its path.
ProcLines ==
    {[ctrls |-> <<Cpu>>, path |-> "/x"], [ctrls |-> <<Cpu>>, path |-> "/y"],
     [ctrls |-> <<Cp>>, path |-> "/x"],
     [ctrls |-> <<Cpua, Cp>>, path |-> "/x"],
     [ctrls |-> <<Mem, Cpu>>, path |-> "/y"]}
ProcPidCgroups ==
    {<<>>} \cup {<<a>> : a \in ProcLines}
           \cup {<<a, b>> : a \in ProcLines, b \in ProcLines}

\* api.c:2131-2170: the loop over the lines from the k-th on. fscanf
\* returns EOF on a file with no line; after the last line feof ends the
\* loop with ret still the 3 of fscanf.
RECURSIVE PathLoop(_, _, _)
PathLoop(file, controller, k) ==
    IF file = <<>> THEN [ret |-> ECGOTHER, path |-> ""]
    ELSE IF k > Len(file) THEN [ret |-> "3", path |-> ""]
    ELSE IF \E j \in 1..Len(file[k].ctrls) :
                TokenMatches(controller, file[k].ctrls[j])
    THEN [ret |-> OK, path |-> file[k].path]
    ELSE PathLoop(file, controller, k + 1)

\* cgroup_get_current_controller_path (api.c:2096-2177): [ret, path].
cgroup_get_current_controller_path(inited, file, controller, io) ==
    IF inited = 0 THEN [ret |-> ECGROUPNOTINITIALIZED, path |-> ""]
    ELSE IF io = "fopen" THEN [ret |-> ECGROUPNOTEXIST, path |-> ""]
    ELSE PathLoop(file, controller, 1)

\* Most calls of cgroup_get_current_controller_path in one run.
MaxPathOps == 1

\* cgroup_get_current_controller_path(pid, controller, &current_path).
CurrentControllerPath ==
    /\ n_ops < MaxPathOps /\ hnd = NoHandle
    /\ n_ops' = n_ops + 1
    /\ \E file \in ProcPidCgroups, controller \in {Cp, Cpu, Cpua},
          io \in {"ok", "fopen"} :
        LET r == cgroup_get_current_controller_path(cgroup_initialized,
                    file, controller, io)
        IN  call' = [op |-> "cgroup_get_current_controller_path",
                     file |-> file, controller |-> controller, io |-> io,
                     ret |-> r.ret, path |-> r.path]
    /\ UNCHANGED <<tableVars, ruleVars, fs, cwd, dr, disk, hnd>>

NextIter ==
    \/ MountAndInit
    \/ StatsBegin \/ StatsNext \/ StatsEnd
    \/ TaskBegin \/ TaskNext \/ TaskEnd
    \/ TreeBegin \/ TreeNext \/ TreeEnd
    \/ CurrentControllerPath

SpecIter == Init /\ [][NextIter]_vars

(***************************************************************************)
(* Properties of the iterators.                                            *)
(***************************************************************************)
\* The call is a statistics begin or next that read the stream.
StatsRead ==
    /\ call.op \in {"cgroup_read_stats_begin", "cgroup_read_stats_next"}
    /\ call.read

\* C23: a statistics begin or next that reads a line with no name token or
\* no value token returns invalid; it returns success only when it has
\* stored the name and the value of the line read; it returns the eof
\* sentinel when no line is left.
C23_StatsLineNeedsBothTokens ==
    StatsRead =>
        /\ call.eof => call.ret = ECGEOF
        /\ (~call.eof /\ Len(call.line) < 2) => call.ret = ECGINVAL
        /\ call.ret = OK =>
              /\ Len(call.line) = 2
              /\ call.stat = [name |-> call.line[1], value |-> call.line[2]]

\* The call is a task begin or next that reached the read of the stream.
TaskRead ==
    /\ call.op \in {"cgroup_get_task_begin", "cgroup_get_task_next"}
    /\ cgroup_initialized = 1
    /\ call.ptr = "set"

\* C24: over a tasks file with the ids t_1 .. t_n, begin delivers t_1 and
\* each next the id after the last one delivered, so that the ids come
\* once each and in file order; every call after t_n returns the eof
\* sentinel, begin included when n = 0; end closes the stream and clears
\* the handle, so that an end on the cleared handle returns invalid and the
\* stream is closed once at most.
C24_TaskIteration ==
    hnd.kind = "tasks" =>
        /\ hnd.yielded = SubSeq(hnd.file, 1, Len(hnd.yielded))
        /\ hnd.yielded \o hnd.rest = hnd.file
        /\ hnd.closes <= 1
        /\ TaskRead =>
              IF call.before < Len(hnd.file)
              THEN /\ call.ret = OK
                   /\ call.pid = hnd.file[call.before + 1]
                   /\ Len(hnd.yielded) = call.before + 1
              ELSE /\ call.ret = ECGEOF
                   /\ Len(hnd.yielded) = call.before
        /\ (call.op = "cgroup_get_task_end" /\ cgroup_initialized = 1) =>
              /\ hnd.ptr = "null"
              /\ call.ptr = "set" => call.ret = OK /\ hnd.closes = 1
              /\ call.ptr = "null" =>
                    call.ret = ECGINVAL /\ hnd.closes = call.closes

\* All three ids were delivered, and a second end was refused.
C24_Witness ==
    /\ hnd.kind = "tasks"
    /\ hnd.yielded = <<11, 12, 13>>
    /\ call.op = "cgroup_get_task_end"
    /\ call.ptr = "null"
    /\ call.ret = ECGINVAL
    /\ hnd.closes = 1

\* The call is a walk begin or next, of a walk with a depth limit, that
\* returned success.
WalkDelivered ==
    /\ call.op \in {"cgroup_walk_tree_begin", "cgroup_walk_tree_next"}
    /\ call.max_depth > 0
    /\ call.ret = OK

\* C25: in a walk begun with max_depth > 0, begin and next deliver no
\* record of an entry whose level is greater than the level of the base
\* entry plus max_depth.
C25_WalkSuppressesDeepEntries ==
    WalkDelivered => call.info.depth <= call.root + call.max_depth

\* The lines of the file of the call whose controller list holds the
\* controller asked for, as one of its tokens.
LinesNaming ==
    {k \in 1..Len(call.file) :
        \E j \in 1..Len(call.file[k].ctrls) :
            call.file[k].ctrls[j] = call.controller}

\* C28: get_current_controller_path returns success exactly when a line of
\* /proc/<pid>/cgroup has, in its controller list, a token equal to the
\* controller name (a token the name is a prefix of, or that is a prefix
\* of the name, is no match), and the path it returns is that of the first
\* such line.
C28_PathOfFirstLineNamingController ==
    (/\ call.op = "cgroup_get_current_controller_path"
     /\ cgroup_initialized = 1
     /\ call.io = "ok") =>
        /\ call.ret = OK <=> LinesNaming # {}
        /\ call.ret = OK =>
              \E k \in LinesNaming :
                  /\ \A j \in LinesNaming : k <= j
                  /\ call.path = call.file[k].path

\* The first line names cpua and cp, the second names cpu.
C28_Witness ==
    /\ call.op = "cgroup_get_current_controller_path"
    /\ call.controller = Cpu
    /\ call.file = <<[ctrls |-> <<Cpua, Cp>>, path |-> "/x"],
                     [ctrls |-> <<Mem, Cpu>>, path |-> "/y"]>>
    /\ call.ret = OK
    /\ call.path = "/y"

(***************************************************************************)
(* Successive loads of the rules cache from a file that changes.           *)
(***************************************************************************)
\* Most loads in one run.
MaxLoads == 3

\* The contents the rules file takes between the loads.
\* A line listing one controller more than a rule holds (api.c:494-498).
ManyLine ==
    Line(Tok("", "bob"), [k \in 1..(MAX_MNT_ELEMENTS + 1) |-> "cpu"], "/many")

\* The last two end a parse in error after a rule was pushed: a line of two
\* fields, a controller list that is too long.
ReloadFiles ==
    {<<>>, <<StaffLine>>, <<AliceLine, ContLine>>,
     <<NoGroupLine, Cont2Line>>, <<NoSuchLine, ContLine, WildLine>>,
     <<WildLine, AliceLine, Cont2Line>>,
     <<AliceLine, ShortLine>>, <<WildLine, ManyLine>>}

\* A parse that leaves the old list in place.
KeepList(mem, lst) == [mem |-> mem, lst |-> lst]

\* api.c:339-341 with cgroup_free_rule_list (api.c:224-244): a list
\* that has a head is freed rule by rule and its head and tail set to
\* NULL.
CleanList(mem, lst) ==
    IF lst.head = NULL THEN [mem |-> mem, lst |-> lst]
    ELSE [mem |-> cgroup_free_rule_list(mem, lst), lst |-> EmptyList]

\* api.c:510-517: the rules are pushed in order; the first becomes the
\* head of a list with no head, every other is linked behind the tail.
PushOnto(mem, lst, rules) ==
    LET linked == IF lst.head # NULL /\ rules # <<>>
                  THEN [mem EXCEPT ![lst.tail].next = Len(mem) + 1]
                  ELSE mem
    IN  [mem |-> PushRules(linked, rules),
         lst |-> IF rules = <<>> THEN lst
                 ELSE [head |-> IF lst.head = NULL THEN Len(mem) + 1
                                ELSE lst.head,
                       tail |-> Len(mem) + Len(rules)]]

\* The destinations of the rules of the cached list, in list order.
CachedDestinations(mem, lst) ==
    LET rules == RulesOf(mem, lst)
    IN  [k \in 1..Len(rules) |-> rules[k].destination]

\* Another process rewrites the rules file between two loads.
RewriteRulesFile ==
    /\ n_calls < MaxLoads
    /\ \E f \in ReloadFiles : rules_file # f /\ rules_file' = f
    /\ UNCHANGED <<driverVars, tableVars, call, rule_mem, rl, trl, rl_lock,
                   th, n_calls>>

\* cgroup_init_rules_cache (api.c:2071-2087) and
\* cgroup_reload_cached_rules (api.c:2046-2064): cgroup_parse_rules in
\* cache mode, under the rule lock for the whole of the parse.
CacheLoad ==
    /\ n_calls < MaxLoads /\ rl_lock = NoThread
    /\ n_calls' = n_calls + 1
    /\ \E io \in {"ok", "fopen"},
          op \in {"cgroup_init_rules_cache", "cgroup_reload_cached_rules"} :
        LET r == cgroup_parse_rules(rules_file, TRUE, CGRULE_INVALID,
                                    CGRULE_INVALID, io)
            cleaned == IF r.cleaned THEN CleanList(rule_mem, rl)
                       ELSE [mem |-> rule_mem, lst |-> rl]
            pushed == PushOnto(cleaned.mem, cleaned.lst, r.rules)
        IN  /\ rule_mem' = pushed.mem
            /\ rl' = pushed.lst
            /\ call' = [op |-> op,
                        ret |-> IF r.ret # OK /\ op = "cgroup_reload_cached_rules"
                                THEN ECGROUPPARSEFAIL ELSE r.ret,
                        io |-> io, file |-> rules_file,
                        allocated |-> Len(rule_mem),
                        before |-> CachedDestinations(rule_mem, rl)]
    /\ UNCHANGED <<driverVars, tableVars, rules_file, trl, rl_lock, th>>

NextReload == RewriteRulesFile \/ CacheLoad

SpecReload == Init /\ [][NextReload]_vars

\* The call is a load of the cache that returned success.
LoadedCache ==
    /\ call.op \in {"cgroup_init_rules_cache", "cgroup_reload_cached_rules"}
    /\ call.ret = OK

\* C29: after every successful load in cache mode, the cached list holds
\* the rules of the file loaded whose principal resolves, with their
\* continuations, in file order, every one of them allocated by this load
\* and none freed, whatever was loaded before.
C29_CacheIsTheFileLoaded ==
    LoadedCache =>
        /\ CachedDestinations(rule_mem, rl) = KeptDestinations(call.file)
        /\ \A k \in 1..Len(ListFrom(rule_mem, rl.head)) :
              LET a == ListFrom(rule_mem, rl.head)[k]
              IN  a > call.allocated /\ ~rule_mem[a].freed

\* A third load, of a file that keeps one rule of three, over a cache
\* that held other rules.
C29_Witness ==
    /\ LoadedCache
    /\ n_calls = MaxLoads
    /\ call.file = <<NoSuchLine, ContLine, WildLine>>
    /\ call.before = <<"/users/alice", "/users/alice_mem">>
    /\ CachedDestinations(rule_mem, rl) = <<"/all">>

(***************************************************************************)
(* Termination of the scan of the cached list.                             *)
(***************************************************************************)
\* C31: for every cached list and every (uid, gid), a classification with
\* USECACHE ends its scan of the list and releases the rule lock, also when
\* the list holds a group rule whose group does not resolve or the uid has
\* no entry in the password database.
C31_CachedScanTerminates ==
    (IsClassify /\ call.flags = CGFLAG_USECACHE) =>
        /\ call.outcome # "hang"
        /\ rl_lock = NoThread

(***************************************************************************)
(* What a successful delete leaves on disk.                                *)
(***************************************************************************)
\* The mount paths under which the group of cg has a directory.
DirectoriesLeft(tab, cg) ==
    {m \in MountDirs :
        /\ fs[m].exists
        /\ \E k \in 1..Len(cg.controller) :
              LET r == cg_build_path_locked(tab, GroupName,
                                            cg.controller[k].name)
              IN  r.found /\ r.mount = m}

\* C32: delete returns success only if, when it returns, the group's
\* directory is gone under every controller the group lists; an open or
\* rmdir that failed on one controller is not masked by the result on
\* another, with ignore_migration set or clear.
C32_DeleteSuccessMeansRemoved ==
    (/\ dr.pc = "done" /\ dr.op = "cgroup_delete_cgroup" /\ dr.ret = OK)
        => DirectoriesLeft(cg_mount_table, dr.cg) = {}

(***************************************************************************)
(* What a successful create leaves on disk.                                *)
(***************************************************************************)
\* The controllers of cg that resolve and under which the group has no
\* directory.
DirectoriesMissing(tab, cg) ==
    {k \in 1..Len(cg.controller) :
        LET r == cg_build_path_locked(tab, GroupName, cg.controller[k].name)
        IN  r.found /\ ~fs[r.mount].exists}

\* C33: create returns success only if the group's directory exists under
\* every controller of the group; a walk that could not enter a segment or
\* could not allocate, and so left the remaining segments unmade, reports
\* an error and not the result of restoring the working directory.
C33_CreateSuccessMeansDirectories ==
    (/\ dr.pc = "done" /\ dr.op = "cgroup_create_cgroup" /\ dr.ret = OK)
        => DirectoriesMissing(cg_mount_table, dr.cg) = {}

(***************************************************************************)
(* A load of the cache that fails.                                         *)
(***************************************************************************)
\* The call is a load of the cache that returned an error.
FailedLoad ==
    /\ call.op \in {"cgroup_init_rules_cache", "cgroup_reload_cached_rules"}
    /\ call.ret # OK

\* C34: a load in cache mode that fails (the file cannot be opened, a line
\* has not three fields, a controller list is too long) leaves the cached
\* list as it was before the call: the same rules, none of them freed.
C34_FailedLoadKeepsCache ==
    FailedLoad =>
        /\ CachedDestinations(rule_mem, rl) = call.before
        /\ \A k \in 1..Len(ListFrom(rule_mem, rl.head)) :
              LET a == ListFrom(rule_mem, rl.head)[k]
              IN  a <= call.allocated /\ ~rule_mem[a].freed

(***************************************************************************)
(* create, modify, delete and attach on a mount table that lacks a         *)
(* controller of the group. The table is rewritten between the calls only. *)
(***************************************************************************)
\* The mount lists: both controllers mounted, cpu alone, none.
FrameScans ==
    DriverScans \cup
    {[reg |-> <<"cpu", "memory">>,
      mounts |-> <<[type |-> "cgroup", dir |-> "/cg/a", opts |-> <<"cpu">>]>>]}

InitBetweenCalls == dr.pc = "idle" /\ CgroupInitFrom(FrameScans, {"ok"})

\* Most calls of the driver in one run.
MaxFrameOps == 1

FrameStart ==
    /\ n_ops < MaxFrameOps
    /\ (CreateStart \/ ModifyStart \/ DeleteStart \/ AttachStart)

NextFrame ==
    \/ InitBetweenCalls \/ EnvMkdir
    \/ FrameStart
    \/ CheckMounted
    \/ CreateAlloc \/ CreateBuild \/ CreateControlGroup \/ WalkSeg
    \/ WalkRestore \/ WalkReturn \/ CreateBase \/ CreateChown
    \/ CreateValue \/ CreateTasksChown \/ CreateErr
    \/ ModifyBuild \/ ModifyValue
    \/ DeleteOpenParent \/ DeleteMigrate \/ DeleteRmdir \/ DeletePass2
    \/ DeleteReturn
    \/ AttachRoot \/ AttachOne
    \/ DriverReturn

SpecFrame == Init /\ [][NextFrame]_vars

\* The calls that start with the loop of mounted-checks.
CheckedOps ==
    {"cgroup_create_cgroup", "cgroup_modify_cgroup", "cgroup_delete_cgroup",
     "cgroup_attach_task_pid"}

\* The driver is in a call on a group that lists a controller the mount
\* table does not hold.
ListsUnmounted ==
    /\ dr.op \in CheckedOps /\ dr.pc \notin {"idle", "done"}
    /\ ~dr.cg.null
    /\ \E k \in 1..Len(dr.cg.controller) :
          ~cgroup_test_subsys_mounted(cg_mount_table, dr.cg.controller[k].name)

\* C35: a create, modify, delete or attach on a group listing a controller
\* that is absent from the mount table changes nothing on the filesystem
\* nor the working directory, does nothing but its mounted-checks, and
\* returns subsys-not-mounted, also when mounted controllers precede the
\* missing one.
C35_UnmountedControllerNoMutation ==
    [][ListsUnmounted =>
          /\ fs' = fs /\ cwd' = cwd
          /\ dr'.pc \in {"check", "done"}
          /\ dr'.pc = "done" => dr'.ret = ECGROUPSUBSYSNOTMOUNTED
          /\ dr'.writes = 0 /\ dr'.wrote = {} /\ dr'.seg = 0
          /\ dr'.rm1 = {} /\ dr'.rm2 = {} /\ dr'.migrated = {}]_vars

\* A create on [cpu, memory] with cpu alone in the table has returned.
C35_Witness ==
    /\ dr.pc = "done" /\ dr.op = "cgroup_create_cgroup"
    /\ Len(dr.cg.controller) = 2
    /\ cgroup_test_subsys_mounted(cg_mount_table, dr.cg.controller[1].name)
    /\ ~cgroup_test_subsys_mounted(cg_mount_table, dr.cg.controller[2].name)
    /\ dr.ret = ECGROUPSUBSYSNOTMOUNTED

(***************************************************************************)
(* The order in which the operations take and release the two locks:      *)
(* cg_mount_table_lock (api.c:74) and rl_lock (api.c:89). An operation is *)
(* the sequence of lock calls of one of its paths; "spin" is the loop of  *)
(* api.c:1798-1839 that does not advance.                                 *)
(***************************************************************************)
MT == "cg_mount_table_lock"
RL == "rl_lock"

\* Most calls of the threads in one run.
MaxNestCalls == 3

Ev(a, l) == [a |-> a, l |-> l]

\* A section under the reader lock, under the writer lock.
Rd(l) == <<Ev("rdlock", l), Ev("unlock", l)>>
Wr(l) == <<Ev("wrlock", l), Ev("unlock", l)>>

\* s repeated n times.
RECURSIVE Times(_, _)
Times(s, n) == IF n = 0 THEN <<>> ELSE s \o Times(s, n - 1)

\* api.c:178-193: both returns of cgroup_test_subsys_mounted unlock.
TestSubsysLocks == Rd(MT)

\* api.c:760-766: cg_build_path.
BuildPathLocks == Rd(MT)

\* The loop of mounted-checks over n controllers, left at the first one
\* missing, and after it at most `most` calls of cg_build_path, the
\* operation returning after any of them.
CheckedLocks(n, most) ==
    {Times(TestSubsysLocks, k) : k \in 1..n} \cup
    {Times(TestSubsysLocks, n) \o Times(BuildPathLocks, j) : j \in 0..most}

\* api.c:814-859: with a NULL cgroup one section over the table
\* (825-838, unlocked on both returns); else the checks and one
\* cg_build_path for each controller.
AttachLocks ==
    {Rd(MT)} \cup UNION {CheckedLocks(n, n) : n \in 0..MaxCtrls}

\* api.c:1178-1199 and 1043-1054: create and modify.
CreateLocks == UNION {CheckedLocks(n, n) : n \in 0..MaxCtrls}
ModifyLocks == UNION {CheckedLocks(n, n) : n \in 0..MaxCtrls}

\* api.c:1399-1448: delete resolves the path three times for a controller
\* in the first pass and once in the second.
DeleteLocks == UNION {CheckedLocks(n, 4 * n) : n \in 0..MaxCtrls}

\* A read that resolves its paths with cg_build_path while it holds the
\* reader lock.
GetCgroupRelocks ==
    {<<Ev("rdlock", MT)>> \o BuildPathLocks \o <<Ev("unlock", MT)>>}

\* api.c:1603-1705: cgroup_get_cgroup holds the reader lock from 1603 to
\* 1693 or 1697 and uses cg_build_path_locked inside (1614, 1624, 1474,
\* 1531).
GetCgroupLocks == {Rd(MT)}

\* api.c:580-685: every path of cgroup_init leaves by unlock_exit.
InitLocks == {Wr(MT)}

\* api.c:314-550: every path of cgroup_parse_rules leaves by unlock.
ParseRulesLocks == {Wr(RL)}

\* api.c:1798-1845: the scan of the cached list ends and unlocks, or
\* examines one rule for ever.
FindMatchingLocks == {Wr(RL), <<Ev("wrlock", RL), Ev("spin", RL)>>}

\* api.c:1735-1754: cg_prepare_cgroup reads the table for "*" only.
PrepareLocks == {<<>>, Rd(MT)}

\* api.c:1887-1940 and 1965-1985: the rule is looked for under the rule
\* lock; the lock is released before cg_prepare_cgroup and
\* cgroup_attach_task_pid run.
ChangeCgroupLocks ==
    FindMatchingLocks \cup
    {f \o q \o a : f \in ParseRulesLocks \cup {Wr(RL)}, q \in PrepareLocks,
                   a \in UNION {CheckedLocks(n, n) : n \in 1..MaxCtrls}}

\* api.c:2001-2038: cgroup_print_rules_config.
PrintLocks == {Rd(RL)}

NestOps ==
    {"cgroup_init", "cgroup_reload_cached_rules",
     "cgroup_change_cgroup_uid_gid_flags", "cgroup_attach_task_pid",
     "cgroup_create_cgroup", "cgroup_modify_cgroup", "cgroup_delete_cgroup",
     "cgroup_get_cgroup", "cgroup_print_rules_config"}

LocksOf(op) ==
    CASE op = "cgroup_init" -> InitLocks
      [] op = "cgroup_reload_cached_rules" -> ParseRulesLocks
      [] op = "cgroup_change_cgroup_uid_gid_flags" -> ChangeCgroupLocks
      [] op = "cgroup_attach_task_pid" -> AttachLocks
      [] op = "cgroup_create_cgroup" -> CreateLocks
      [] op = "cgroup_modify_cgroup" -> ModifyLocks
      [] op = "cgroup_delete_cgroup" -> DeleteLocks
      [] op = "cgroup_get_cgroup" -> GetCgroupLocks
      [] op = "cgroup_print_rules_config" -> PrintLocks

\* The threads holding lock l in mode m ("r", "w").
Holders(ts, l, m) ==
    {t \in Threads :
        ts[t].pc \notin {"idle"} /\
        \E k \in 1..Len(ts[t].held) : ts[t].held[k] = [l |-> l, m |-> m]}

\* pthread_rwlock_rdlock and pthread_rwlock_wrlock return.
Grantable(ts, e) ==
    IF e.a = "rdlock" THEN Holders(ts, e.l, "w") = {}
    ELSE Holders(ts, e.l, "w") = {} /\ Holders(ts, e.l, "r") = {}

\* The two lock variables as the threads' holds make them.
LocksMirror(ts) ==
    /\ cg_mount_table_lock' =
          [writer |-> Holders(ts, MT, "w") # {},
           readers |-> Cardinality(Holders(ts, MT, "r"))]
    /\ rl_lock' = IF Holders(ts, RL, "w") = {} THEN NoThread
                  ELSE CHOOSE t \in Holders(ts, RL, "w") : TRUE

nestFrame ==
    <<cgroup_initialized, cg_mount_table, n_init, last_scan, ini, rdr, call,
      rules_file, rule_mem, rl, trl, driverVars>>

\* Thread t enters an operation on one of its paths.
NestCall(t) ==
    /\ th[t].pc \in {"idle", "done"}
    /\ n_calls < MaxNestCalls
    /\ n_calls' = n_calls + 1
    /\ \E op \in NestOps : \E path \in LocksOf(op) :
          th' = [th EXCEPT ![t] = [pc |-> "run", op |-> op, todo |-> path,
                                   held |-> <<>>]]
    /\ UNCHANGED <<nestFrame, cg_mount_table_lock, rl_lock>>

\* Thread t comes to a rdlock or wrlock call.
NestRequest(t) ==
    /\ th[t].pc = "run" /\ th[t].todo # <<>>
    /\ Head(th[t].todo).a \in {"rdlock", "wrlock"}
    /\ th' = [th EXCEPT ![t].pc = "wait"]
    /\ UNCHANGED <<nestFrame, cg_mount_table_lock, rl_lock, n_calls>>

\* The lock call of thread t returns.
NestAcquire(t) ==
    /\ th[t].pc = "wait"
    /\ LET e == Head(th[t].todo)
       IN  /\ Grantable(th, e)
           /\ th' = [th EXCEPT
                      ![t].pc = "run",
                      ![t].todo = Tail(@),
                      ![t].held = Append(@,
                          [l |-> e.l,
                           m |-> IF e.a = "rdlock" THEN "r" ELSE "w"])]
    /\ LocksMirror(th')
    /\ UNCHANGED <<nestFrame, n_calls>>

\* pthread_rwlock_unlock: the hold taken last on the lock is given up.
NestUnlock(t) ==
    /\ th[t].pc = "run" /\ th[t].todo # <<>>
    /\ Head(th[t].todo).a = "unlock"
    /\ LET l == Head(th[t].todo).l
           h == th[t].held
           ks == {k \in 1..Len(h) : h[k].l = l}
       IN  /\ ks # {}
           /\ LET last == CHOOSE k \in ks : \A j \in ks : j <= k
              IN  th' = [th EXCEPT
                          ![t].todo = Tail(@),
                          ![t].held = SubSeq(h, 1, last - 1) \o
                                      SubSeq(h, last + 1, Len(h))]
    /\ LocksMirror(th')
    /\ UNCHANGED <<nestFrame, n_calls>>

\* api.c:1819-1827: the scan stays on one rule, the rule lock held.
NestSpin(t) ==
    /\ th[t].pc = "run" /\ th[t].todo # <<>>
    /\ Head(th[t].todo).a = "spin"
    /\ th' = [th EXCEPT ![t].pc = "spin", ![t].todo = <<>>]
    /\ UNCHANGED <<nestFrame, cg_mount_table_lock, rl_lock, n_calls>>

\* The operation of thread t returns.
NestReturn(t) ==
    /\ th[t].pc = "run" /\ th[t].todo = <<>>
    /\ th' = [th EXCEPT ![t].pc = "done"]
    /\ UNCHANGED <<nestFrame, cg_mount_table_lock, rl_lock, n_calls>>

NestCallStep == \E t \in Threads : NestCall(t)
NestRequestStep == \E t \in Threads : NestRequest(t)
NestAcquireStep == \E t \in Threads : NestAcquire(t)
NestUnlockStep == \E t \in Threads : NestUnlock(t)
NestSpinStep == \E t \in Threads : NestSpin(t)
NestReturnStep == \E t \in Threads : NestReturn(t)

NextNest ==
    \/ NestCallStep \/ NestRequestStep \/ NestAcquireStep
    \/ NestUnlockStep \/ NestSpinStep \/ NestReturnStep

SpecNest == Init /\ [][NextNest]_vars

\* Thread t is in an operation.
InOperation(t) == th[t].pc \in {"run", "wait", "spin", "done"}

\* C36: no thread requests cg_mount_table_lock or rl_lock while it holds
\* either of them; an operation that has returned holds no lock; and no
\* thread waits for a lock held by a thread that is itself waiting, so the
\* threads cannot deadlock on the two locks.
C36_NoNestedLocks ==
    \A t \in Threads :
        InOperation(t) =>
            /\ th[t].pc = "wait" => th[t].held = <<>>
            /\ th[t].pc = "done" => th[t].held = <<>>
            /\ th[t].pc = "wait" =>
                  \A m \in {"r", "w"} :
                      \A h \in Holders(th, Head(th[t].todo).l, m) :
                          th[h].pc # "wait"

\* t1 is inside cgroup_get_cgroup's section while t2, in cgroup_init,
\* waits for the writer lock.
C36_Witness ==
    /\ th["t1"].pc = "run" /\ th["t1"].op = "cgroup_get_cgroup"
    /\ th["t1"].held = <<[l |-> MT, m |-> "r"]>>
    /\ th["t2"].pc = "wait" /\ th["t2"].op = "cgroup_init"
    /\ cg_mount_table_lock.readers = 1

(***************************************************************************)
(* One classification made both ways: from the cache loaded from the file  *)
(* and by a parse of the file in match mode.                               *)
(***************************************************************************)
\* A search that takes the last rule of the list.
FindLastRule(rules, uid, gid) ==
    IF rules = <<>> THEN [kind |-> "none", k |-> 0]
    ELSE [kind |-> "found", k |-> Len(rules)]

\* api.c:1780-1846 on the whole list.
FindFirstRule(rules, uid, gid) == FindWinner(rules, 1, uid, gid)

\* cgroup_change_cgroup_uid_gid_flags with USECACHE (api.c:1907-1936) on
\* the cached rules: how the call ends, its result, its attaches.
CachedRun(rules, c, tab, fail_at) ==
    LET w == FindFirstRule(rules, c.uid, c.gid)
        as == ExecChain(rules, w.k, tab, 0, fail_at)
    IN  CASE w.kind = "spin" ->
                [outcome |-> "hang", ret |-> OK, attaches |-> <<>>]
          [] w.kind = "none" ->
                [outcome |-> "returned", ret |-> OK, attaches |-> <<>>]
          [] OTHER ->
                [outcome |-> "returned", ret |-> ChainRet(as),
                 attaches |-> as]

\* The same without USECACHE (api.c:1887-1905, 1921-1936) on the result r
\* of the parse in match mode.
ParsedRun(r, tab, fail_at) ==
    LET as == ExecChain(r.rules, 1, tab, 0, fail_at)
    IN  CASE r.ret = "SIGSEGV" ->
                [outcome |-> "crash", ret |-> r.ret, attaches |-> <<>>]
          [] r.ret = "-1" /\ Len(r.rules) > 0 ->
                [outcome |-> "returned", ret |-> ChainRet(as),
                 attaches |-> as]
          [] r.ret = "-1" ->
                [outcome |-> "crash", ret |-> "SIGSEGV", attaches |-> <<>>]
          [] OTHER ->
                [outcome |-> "returned", ret |-> r.ret, attaches |-> <<>>]

\* cgroup_reload_cached_rules, then cgroup_change_cgroup_uid_gid_flags
\* with USECACHE, then the same call without it; the attach number fail_at
\* fails in both.
ClassifyBothWays ==
    /\ cgroup_initialized = 1
    /\ n_calls < MaxClassify /\ rl_lock = NoThread
    /\ n_calls' = n_calls + 1
    /\ \E c \in ClassifyCallers, fail_at \in 0..MaxLines :
        LET load == cgroup_parse_rules(rules_file, TRUE, CGRULE_INVALID,
                                       CGRULE_INVALID, "ok")
            cleaned == CleanList(rule_mem, rl)
            loaded == PushOnto(cleaned.mem, cleaned.lst, load.rules)
            cached == CachedRun(RulesOf(loaded.mem, loaded.lst), c,
                                cg_mount_table, fail_at)
            r == cgroup_parse_rules(rules_file, FALSE, c.uid, c.gid, "ok")
            emptied == CleanList(loaded.mem, trl)
            pushed == PushOnto(emptied.mem, emptied.lst, r.rules)
            parsed == ParsedRun(r, cg_mount_table, fail_at)
        IN  /\ rl' = loaded.lst
            /\ rule_mem' = IF cached.outcome = "hang" THEN loaded.mem
                           ELSE pushed.mem
            /\ trl' = IF cached.outcome = "hang" THEN trl ELSE pushed.lst
            /\ rl_lock' = IF cached.outcome = "hang" \/ r.ret = "SIGSEGV"
                          THEN "t1" ELSE rl_lock
            /\ call' = [op |-> "classify_both_ways", uid |-> c.uid,
                        gid |-> c.gid, file |-> rules_file,
                        fail_at |-> fail_at, load |-> load.ret,
                        cached |-> cached,
                        parsed |-> IF cached.outcome = "hang"
                                   THEN [outcome |-> "not called",
                                         ret |-> OK, attaches |-> <<>>]
                                   ELSE parsed]
    /\ UNCHANGED <<driverVars, tableVars, rules_file, th>>

NextModes == CgroupInitClassify \/ WriteRulesFile \/ ClassifyBothWays

SpecModes == Init /\ [][NextModes]_vars

\* Every line of the file read has its three fields and a controller list
\* that fits.
WellFormed(file) ==
    \A k \in 1..Len(file) :
        /\ file[k].fields = 3
        /\ Len(file[k].controllers) \in 1..MAX_MNT_ELEMENTS

\* C37: for a rules file of well-formed lines and a (uid, gid) whose uid
\* has a password-database entry, the classification without USECACHE
\* makes the same attaches in the same order and returns the same result
\* as the one with USECACHE made right after a load of the same file.
C37_ParsedEqualsCached ==
    (/\ call.op = "classify_both_ways"
     /\ WellFormed(call.file) /\ HasPwuid(call.uid))
        => /\ call.cached.outcome = "returned"
           /\ call.parsed = call.cached

\* bob, a member of staff, is classified by a file whose second line is
\* the group rule and which continues it; the second attach fails.
C37_Witness ==
    /\ call.op = "classify_both_ways"
    /\ call.uid = 2 /\ call.fail_at = 2
    /\ call.file = <<AliceLine, StaffLine, ContLine>>
    /\ Len(call.cached.attaches) = 2
    /\ call.cached.ret = ECGROUPNOTEXIST

(***************************************************************************)
(* The initialized flag after a re-initialization that fails.              *)
(***************************************************************************)
\* Some call of cgroup_init has succeeded: its matches were recorded.
InitSucceededOnce == last_scan # <<>>

\* C38: once a call of cgroup_init has succeeded the initialized flag stays
\* set, also after a later init that fails with not-mounted and empties
\* the table or fails on its files, and no entry point called afterwards
\* returns not-initialized.
C38_FlagStaysSet ==
    InitSucceededOnce =>
        /\ cgroup_initialized = 1
        /\ call.op \in EntryPoints => call.ret # ECGROUPNOTINITIALIZED

\* An entry point is called after a re-initialization that found nothing
\* mounted and emptied the table.
C38_Witness ==
    /\ InitSucceededOnce
    /\ FirstEmpty(cg_mount_table) = 0
    /\ call.op = "cgroup_create_cgroup"
    /\ call.inited = 1

(***************************************************************************)
(* cgroup_modify_cgroup with several values in a controller: where the     *)
(* loop over the values stops.                                             *)
(***************************************************************************)
\* Most values a controller of a modified group carries.
MaxStopValues == 2

\* The value lists of a modified group.
StopValues == {[k \in 1..n |-> k] : n \in 0..MaxStopValues}

\* cgroup_modify_cgroup(cgroup) on a table no call of cgroup_init rewrites
\* before the call returns (api.c:1030-1049).
StopStart ==
    /\ dr.pc = "idle" /\ n_ops < MaxOps
    /\ n_ops' = n_ops + 1
    /\ \E cg \in CgroupArgs(StopValues) :
        LET d == StartOp("cgroup_modify_cgroup", cg, FALSE, 0)
        IN  dr' = Enter(d, Finish(d, ECGROUPNOTALLOWED))
    /\ UNCHANGED <<notDriver, fs, cwd>>

NextStop ==
    \/ InitBetweenCalls \/ StopStart \/ CheckMounted \/ ModifyBuild
    \/ ModifyValue \/ DriverReturn

SpecStop == Init /\ [][NextStop]_vars

\* The number of values of the group that come before value j of
\* controller i, in controller order and then attribute order.
RECURSIVE ValuesBefore(_, _, _)
ValuesBefore(cg, i, j) ==
    IF i <= 1 THEN j - 1
    ELSE Len(cg.controller[i - 1].values) + ValuesBefore(cg, i - 1, j)

\* The number of values of the group.
ValuesOf(cg) == ValuesBefore(cg, Len(cg.controller) + 1, 1)

\* The loop of modify is at value j of controller i, or has returned from
\* there.
InModifyLoop ==
    /\ dr.op = "cgroup_modify_cgroup"
    /\ dr.pc \in {"mo_build", "mo_value", "done"}
    /\ dr.i >= 1

\* C39: modify stops at the first attribute write that fails: while the
\* loop runs every write made so far has succeeded and the writes made are
\* exactly those of the attributes before the position of the loop, in
\* controller and attribute order; a write that fails is the last one
\* made, the call returns its error, and the attributes after it, of the
\* same and of later controllers, are not written.
C39_ModifyStopsAtFirstFailure ==
    InModifyLoop =>
        /\ dr.pc \in {"mo_build", "mo_value"} =>
            /\ dr.error = OK
            /\ dr.writes = ValuesBefore(dr.cg, dr.i,
                                IF dr.pc = "mo_build" THEN 1 ELSE dr.j)
        /\ (dr.pc = "done" /\ dr.error # OK) =>
            /\ dr.ret = dr.error
            /\ dr.writes = ValuesBefore(dr.cg, dr.i, dr.j)
            /\ dr.writes <= ValuesOf(dr.cg)

\* Both values of the first controller were written, the first value of
\* the second controller failed, and its second value was left alone.
C39_Witness ==
    /\ InModifyLoop
    /\ dr.pc = "done"
    /\ dr.error = ECGROUPVALUENOTEXIST
    /\ dr.ret = ECGROUPVALUENOTEXIST
    /\ dr.i = 2
    /\ dr.writes = 3
    /\ ValuesOf(dr.cg) = 4

(***************************************************************************)
(* cgroup_get_current_controller_path on a file that does not name the     *)
(* controller.                                                             *)
(***************************************************************************)
\* The file of the call was opened and read, every line of it has its
\* three fields, and no line lists the controller asked for.
ControllerNotListed ==
    /\ call.op = "cgroup_get_current_controller_path"
    /\ cgroup_initialized = 1
    /\ call.io = "ok"
    /\ call.file # <<>>
    /\ LinesNaming = {}

\* C40: when /proc/<pid>/cgroup is readable and well formed but no line
\* lists the requested controller, get_current_controller_path returns the
\* not-exists error kind, never success and never a number outside the
\* error codes, and leaves the caller's output path untouched.
C40_NotListedMeansNotExist ==
    ControllerNotListed =>
        /\ call.ret = ECGROUPNOTEXIST
        /\ call.path = ""

=============================================================================
